---- MODULE Spec2Model ----
(***************************************************************************)
(* picochess: the command dispatcher (src/dispatcher.py), the DGT display  *)
(* state machine (src/dgt/display.py) and the UCI engine wrapper           *)
(* (src/uci/engine.py).                                                    *)
(*                                                                         *)
(* Dispatcher threads: thread 0 is Dispatcher.run (the consumer of         *)
(* dispatch_queue); threads 1..MaxTimers are threading.Timer threads, each *)
(* running Dispatcher._stopped_maxtimer when its interval elapses.  Python *)
(* executes one bytecode at a time (GIL), so each action below is one      *)
(* access to the shared attributes; accesses made outside process_lock are *)
(* separate actions and interleave freely.                                 *)
(***************************************************************************)
EXTENDS Integers, Sequences, FiniteSets, TLC

\* ---------------------------------------------------------------- bounds
\* commands taken from dispatch_queue in one behaviour of Spec
MaxMsgs == 4
\* commands taken from dispatch_queue in one behaviour of SpecDedup
DedupMsgs == 3
\* commands deferred behind the first one in one behaviour of SpecDrain
DrainLen == 3
\* Timer objects in one behaviour: line 73 creates one per command at most
MaxTimers == MaxMsgs

\* ------------------------------------------------------- command universe
\* self.maxtimer = None, self.display_hash = None, the lock not held
NoTimer == -1
NoHash == <<>>
Free == -1

DISPLAY_MOVE == "DISPLAY_MOVE"
DISPLAY_TEXT == "DISPLAY_TEXT"
DISPLAY_TIME == "DISPLAY_TIME"
CLOCK_START == "CLOCK_START"
CLOCK_STOP == "CLOCK_STOP"
CLOCK_TIME == "CLOCK_TIME"
LIGHT_CLEAR == "LIGHT_CLEAR"
LIGHT_SQUARES == "LIGHT_SQUARES"

\* A command: its class (repr), its payload, the names of the attributes its
\* class has (hasattr) and the values of those the dispatcher looks at; the
\* value of an attribute the class does not have is never read.
Cmd(k, c, a, w, mt, b) ==
    [kind |-> k, content |-> c, attrs |-> a, wait |-> w, maxtime |-> mt, beep |-> b]

MoveAttrs == {"wait", "maxtime", "beep"}
\* maxtime is counted in half seconds, the smallest time the program uses
\* (maxtime=0.5); the dispatcher asks only whether it is above 0
HalfSecond == 1
OneSecond == 2

PlainMoves == { Cmd(DISPLAY_MOVE, "e2e4", MoveAttrs, w, mt, FALSE) : w \in BOOLEAN, mt \in {0, 1} }
MoveCmds == PlainMoves \cup { Cmd(DISPLAY_MOVE, "e2e4", MoveAttrs, TRUE, 0, TRUE),
                              Cmd(DISPLAY_MOVE, "d2d4", MoveAttrs, TRUE, 0, FALSE) }
TextCmds == { Cmd(DISPLAY_TEXT, "ok", MoveAttrs, TRUE, 0, FALSE) }
TimeCmds == { Cmd(DISPLAY_TIME, "time", {"wait"}, TRUE, 0, FALSE) }
ClockCmds == { Cmd(CLOCK_START, "clk", {"wait"}, TRUE, 0, FALSE),
               Cmd(CLOCK_STOP, "clk", {}, FALSE, 0, FALSE),
               Cmd(CLOCK_TIME, "clk", {}, FALSE, 0, FALSE) }
LightCmds == { Cmd(LIGHT_CLEAR, "led", {}, FALSE, 0, FALSE) }

\* the commands a producer may put on dispatch_queue
Commands == MoveCmds \cup TextCmds \cup TimeCmds \cup ClockCmds \cup LightCmds
\* those that differ in what run() and the Timer do with them
RaceCommands == PlainMoves \cup LightCmds

\* the refresh the expiry callback sends by itself (id 0: never submitted)
TimeRefresh ==
    [id |-> 0, force |-> FALSE] @@ Cmd(DISPLAY_TIME, "time", {"wait", "force"}, TRUE, 0, FALSE)

NoMsg == [id |-> 0] @@ Cmd("None", "None", {}, FALSE, 0, FALSE)

\* ------------------------------------------------------------- variables
VARIABLES
    maxtimer,          \* self.maxtimer: None or the Timer thread last created
    maxtimer_running,  \* self.maxtimer_running
    tasks,             \* self.tasks
    display_hash,      \* self.display_hash
    process_lock,      \* self.process_lock: Free or the thread holding it
    pc,                \* per thread: where it is in run / Timer.run
    msg,               \* per thread: its local variable `message`
    mine,              \* per thread: the Timer it started in _process_message
    sink,              \* what DisplayDgt.show has been given, in order
    nsub,              \* commands taken from dispatch_queue so far
    limit,             \* commands the producers submit in this behaviour
    shown,             \* pending Timers whose command is already in sink
    prev,              \* last command that went through _process_message
    cancellers,        \* ids of the commands that took the cancel branch (96-103)
    joined             \* the Timer run() waits for in join() (line 99), if any

dispatcher_vars == <<maxtimer, maxtimer_running, tasks, display_hash, process_lock, pc, msg,
                     mine, sink, nsub, limit, shown, prev, cancellers, joined>>

Consumer == 0
TimerIds == 1..MaxTimers
Threads == {Consumer} \cup TimerIds

\* ================================================= DgtDisplay (dgt/display.py)
\* ------------------------------------------------------------------ bounds
\* DGT_FEN messages taken from msg_queue in one behaviour of SpecDisplay
MaxReports == 2
\* largest len(level_dict) of the engine in one behaviour of SpecLevel
MaxLevels == 20

\* ------------------------------------------------------- position strings
\* A position string is the sequence of its characters, so that fen[::-1]
\* and fen.split('/') are computed on the characters.
Reverse(s) == [i \in 1..Len(s) |-> s[Len(s) + 1 - i]]

RECURSIVE Join(_)
Join(ranks) ==
    IF Len(ranks) = 1 THEN ranks[1]
    ELSE ranks[1] \o <<"/">> \o Join(Tail(ranks))

\* fen.split('/')
RECURSIVE Split(_)
Split(s) ==
    IF \A i \in 1..Len(s) : s[i] # "/" THEN <<s>>
    ELSE LET k == CHOOSE i \in 1..Len(s) :
                      s[i] = "/" /\ \A j \in 1..(i - 1) : s[j] # "/"
         IN <<SubSeq(s, 1, k - 1)>> \o Split(SubSeq(s, k + 1, Len(s)))

Empty == <<"8">>
BlackBack == <<"r", "n", "b", "q", "k", "b", "n", "r">>
BlackPawns == <<"p", "p", "p", "p", "p", "p", "p", "p">>
WhitePawns == <<"P", "P", "P", "P", "P", "P", "P", "P">>
WhiteBack == <<"R", "N", "B", "Q", "K", "B", "N", "R">>
Digit(n) == <<"1", "2", "3", "4", "5", "6", "7", "8">>[n]

\* a rank that holds one piece, on file f (0 = first character): q7, 1q6, .. 7q
OnFile(piece, f) ==
    (IF f > 0 THEN <<Digit(f)>> ELSE <<>>) \o <<piece>>
        \o (IF f < 7 THEN <<Digit(7 - f)>> ELSE <<>>)

\* the start position with ranks 6, 5, 4 and 3 as given
StartWith(r6, r5, r4, r3) ==
    Join(<<BlackBack, BlackPawns, r6, r5, r4, r3, WhitePawns, WhiteBack>>)

\* 'rnbqkbnr/pppppppp/8/8/8/8/PPPPPPPP/RNBQKBNR'
StartFen == StartWith(Empty, Empty, Empty, Empty)
\* line 275: 'RNBKQBNR/PPPPPPPP/8/8/8/8/pppppppp/rnbkqbnr'
FlipPattern ==
    Join(<<<<"R", "N", "B", "K", "Q", "B", "N", "R">>, WhitePawns, Empty, Empty,
           Empty, Empty, BlackPawns, <<"r", "n", "b", "k", "q", "b", "n", "r">>>>)
\* DgtMenu.__init__: self.dgt_fen = '8/8/8/8/8/8/8/8'
EmptyBoard == Join(<<Empty, Empty, Empty, Empty, Empty, Empty, Empty, Empty>>)

\* lines 212-262: the tables, indexed from 0 as the tuples are
level_map == [i \in 0..7 |-> StartWith(Empty, OnFile("q", i), Empty, Empty)]
book_map ==
    [i \in 0..15 |-> IF i < 8 THEN StartWith(Empty, Empty, Empty, OnFile("q", i))
                     ELSE StartWith(Empty, Empty, OnFile("q", i - 8), Empty)]
engine_map == [i \in 0..7 |-> StartWith(OnFile("q", i), Empty, Empty, Empty)]
\* (mutant) the table without the entry for a flipped board
shutdown_map_unmirrored ==
    [i \in 0..3 |->
        CASE i \in {0, 1} ->
                 Join(<<BlackBack, BlackPawns, Empty, Empty, Empty, Empty, WhitePawns,
                        <<"R", "N", "B", "Q", "Q", "B", "N", "R">>>>)
          [] i = 2 -> Join(<<Empty, Empty, Empty, Empty, Empty, Empty, Empty,
                            <<"3", "Q", "Q", "3">>>>)
          [] i = 3 -> Join(<<<<"3", "Q", "Q", "3">>, Empty, Empty, Empty, Empty, Empty,
                            Empty, Empty>>)]

shutdown_map ==
    [i \in 0..3 |->
        CASE i = 0 -> Join(<<BlackBack, BlackPawns, Empty, Empty, Empty, Empty, WhitePawns,
                            <<"R", "N", "B", "Q", "Q", "B", "N", "R">>>>)
          [] i = 1 -> Join(<<<<"R", "N", "B", "Q", "Q", "B", "N", "R">>, WhitePawns, Empty,
                            Empty, Empty, Empty, BlackPawns,
                            <<"r", "n", "b", "k", "q", "b", "n", "r">>>>)
          [] i = 2 -> Join(<<Empty, Empty, Empty, Empty, Empty, Empty, Empty,
                            <<"3", "Q", "Q", "3">>>>)
          [] i = 3 -> Join(<<<<"3", "Q", "Q", "3">>, Empty, Empty, Empty, Empty, Empty,
                            Empty, Empty>>)]
reboot_map ==
    [i \in 0..3 |->
        CASE i = 0 -> Join(<<<<"r", "n", "b", "q", "q", "b", "n", "r">>, BlackPawns, Empty,
                            Empty, Empty, Empty, WhitePawns, WhiteBack>>)
          [] i = 1 -> Join(<<<<"R", "N", "B", "K", "Q", "B", "N", "R">>, WhitePawns, Empty,
                            Empty, Empty, Empty, BlackPawns,
                            <<"r", "n", "b", "q", "q", "b", "n", "r">>>>)
          [] i = 2 -> Join(<<Empty, Empty, Empty, Empty, Empty, Empty, Empty,
                            <<"3", "q", "q", "3">>>>)
          [] i = 3 -> Join(<<<<"3", "q", "q", "3">>, Empty, Empty, Empty, Empty, Empty,
                            Empty, Empty>>)]
Modes == <<"NORMAL", "ANALYSIS", "KIBITZ", "OBSERVE", "REMOTE", "PONDER">>
mode_map == [i \in 0..5 |-> StartWith(Empty, OnFile("Q", i), Empty, Empty)]

\* '8/8/8/' + rnk_5 + '/' + rnk_4 + '/8/8/8'
Slice(rnk_5, rnk_4) == Join(<<Empty, Empty, Empty, rnk_5, rnk_4, Empty, Empty, Empty>>)
\* (mutant) every decisive slice read as a win for White
drawresign_map_white ==
    { <<Slice(<<"3", "k", "4">>, <<"4", "K", "3">>), "WIN_WHITE">>,
      <<Slice(<<"3", "K", "4">>, <<"4", "k", "3">>), "WIN_WHITE">>,
      <<Slice(<<"4", "k", "3">>, <<"3", "K", "4">>), "WIN_WHITE">>,
      <<Slice(<<"4", "K", "3">>, <<"3", "k", "4">>), "WIN_WHITE">>,
      <<Slice(<<"3", "k", "K", "3">>, Empty), "DRAW">>,
      <<Slice(<<"3", "K", "k", "3">>, Empty), "DRAW">>,
      <<Slice(Empty, <<"3", "k", "K", "3">>), "DRAW">>,
      <<Slice(Empty, <<"3", "K", "k", "3">>), "DRAW">> }

\* lines 264-271: the pairs (slice, GameResult)
drawresign_map ==
    { <<Slice(<<"3", "k", "4">>, <<"4", "K", "3">>), "WIN_WHITE">>,
      <<Slice(<<"3", "K", "4">>, <<"4", "k", "3">>), "WIN_WHITE">>,
      <<Slice(<<"4", "k", "3">>, <<"3", "K", "4">>), "WIN_BLACK">>,
      <<Slice(<<"4", "K", "3">>, <<"3", "k", "4">>), "WIN_BLACK">>,
      <<Slice(<<"3", "k", "K", "3">>, Empty), "DRAW">>,
      <<Slice(<<"3", "K", "k", "3">>, Empty), "DRAW">>,
      <<Slice(Empty, <<"3", "k", "K", "3">>), "DRAW">>,
      <<Slice(Empty, <<"3", "K", "k", "3">>), "DRAW">> }

\* DgtMenu.tc_fixed_map / tc_blitz_map / tc_fisch_map (dgt/menu.py): the keys,
\* a white queen on rank 6, 4 and 3 of the start position
tc_fixed_map == [i \in 0..7 |-> StartWith(OnFile("Q", i), Empty, Empty, Empty)]
tc_blitz_map == [i \in 0..7 |-> StartWith(Empty, Empty, OnFile("Q", i), Empty)]
tc_fisch_map == [i \in 0..7 |-> StartWith(Empty, Empty, Empty, OnFile("Q", i))]

\* `fen in table` and `table.index(fen)`
InMap(table, fen) == \E i \in DOMAIN table : table[i] = fen
IndexOf(table, fen) == CHOOSE i \in DOMAIN table : table[i] = fen

\* a Chess960 start position (number 0) and a position after 1. e4
Start960 ==
    Join(<<<<"b", "b", "q", "n", "n", "r", "k", "r">>, BlackPawns, Empty, Empty, Empty,
           Empty, WhitePawns, <<"B", "B", "Q", "N", "N", "R", "K", "R">>>>)
AfterE4 ==
    Join(<<BlackBack, BlackPawns, Empty, Empty, <<"4", "P", "3">>, Empty,
           <<"P", "P", "P", "P", "1", "P", "P", "P">>, WhiteBack>>)

\* an Optional value: None, or one value
None == <<>>
Some(x) == <<x>>

\* chess.Board(fen + ' w - - 0 1').chess960_pos(ignore_castling=True)
\* (python-chess): the number of the start position, None for any other one
chess960_pos(fen) ==
    IF fen = StartFen THEN Some(518)
    ELSE IF fen = Start960 THEN Some(0)
    ELSE None

\* the reports the board driver (raw) and the other producers (not raw) send
Reports ==
    { [fen |-> f, raw |-> TRUE] :
        f \in { EmptyBoard, StartFen, FlipPattern, level_map[2], Reverse(level_map[2]),
                book_map[1], book_map[12], engine_map[0], engine_map[1], engine_map[5],
                mode_map[1], tc_fixed_map[1], tc_blitz_map[2], tc_fisch_map[3],
                shutdown_map[0], shutdown_map[1], shutdown_map[2], reboot_map[0],
                Slice(<<"3", "k", "4">>, <<"4", "K", "3">>),
                Slice(<<"3", "k", "K", "3">>, Empty), Start960, AfterE4 } }
    \cup { [fen |-> f, raw |-> FALSE] : f \in { StartFen, FlipPattern } }

\* ------------------------------------------------- numbers as characters
DecDigit(n) == <<"0", "1", "2", "3", "4", "5", "6", "7", "8", "9">>[n + 1]
IsDecDigit(c) == c \in {"0", "1", "2", "3", "4", "5", "6", "7", "8", "9"}
DecValue(c) == CHOOSE n \in 0..9 : DecDigit(n) = c

\* str(n) of an integer
RECURSIVE Digits(_)
Digits(n) == IF n < 10 THEN <<DecDigit(n)>> ELSE Digits(n \div 10) \o <<DecDigit(n % 10)>>
str(n) == IF n < 0 THEN <<"-">> \o Digits(-n) ELSE Digits(n)

\* s.rjust(w) and s[-k:]
rjust(s, w) == IF Len(s) >= w THEN s ELSE [i \in 1..(w - Len(s)) |-> " "] \o s
LastChars(s, k) == IF Len(s) <= k THEN s ELSE SubSeq(s, Len(s) - k + 1, Len(s))

\* int(s) of a string: blanks around an optional sign and decimal digits;
\* None stands for the ValueError any other string raises
RECURSIVE Strip(_)
Strip(s) ==
    IF s = <<>> THEN s
    ELSE IF s[1] = " " THEN Strip(Tail(s))
    ELSE IF s[Len(s)] = " " THEN Strip(SubSeq(s, 1, Len(s) - 1))
    ELSE s
RECURSIVE DigitsValue(_)
DigitsValue(ds) ==
    IF ds = <<>> THEN 0
    ELSE 10 * DigitsValue(SubSeq(ds, 1, Len(ds) - 1)) + DecValue(ds[Len(ds)])
int(s) ==
    LET t == Strip(s)
        signed == t # <<>> /\ t[1] \in {"-", "+"}
        body == IF signed THEN Tail(t) ELSE t
    IN IF body = <<>> \/ \E i \in 1..Len(body) : ~IsDecDigit(body[i]) THEN None
       ELSE IF signed /\ t[1] = "-" THEN Some(-DigitsValue(body))
       ELSE Some(DigitsValue(body))

\* '{:wd}'.format(n) and '{:w.2f}'.format(n / 100) of integers
format_d(n, w) == rjust(str(n), w)
format_2f(n, w) ==
    LET a == IF n < 0 THEN -n ELSE n
    IN rjust((IF n < 0 THEN <<"-">> ELSE <<>>) \o Digits(a \div 100) \o <<".">>
                 \o <<DecDigit((a % 100) \div 10), DecDigit(a % 10)>>, w)

\* DgtTranslate.text('N10_score', msg) and text('N10_mate', msg)
\* (dgt/translate.py): the three widths of a DISPLAY_TEXT; the value None is
\* 'no score'
N10_score(value) ==
    IF value = None
    THEN [id |-> "N10_score", l |-> rjust(<<"n", "o", " ", "s", "c", "o", "r", "e">>, 11),
          m |-> <<"n", "o", " ", "s", "c", "o", "r", "e">>,
          s |-> <<"n", "o", " ", "s", "c", "r">>, rd |-> "NONE"]
    ELSE [id |-> "N10_score", l |-> rjust(str(value[1]), 11), m |-> rjust(str(value[1]), 8),
          s |-> rjust(str(value[1]), 6), rd |-> "NONE"]
N10_mate(value) ==
    [id |-> "N10_mate", l |-> <<"m", "a", "t", "e", " ", "i", "n", " ">> \o value,
     m |-> <<"m", "a", "t", "e", " ">> \o value, s |-> <<"m", "a", "t", "e">> \o value,
     rd |-> "NONE"]

\* ------------------------------------------------------- display commands
\* DgtTranslate.text(id, msg) (dgt/translate.py): a DISPLAY_TEXT
Text(id) == Cmd(DISPLAY_TEXT, id, MoveAttrs, FALSE, 0, FALSE)
\* DgtTranslate.bl(level): the beep for a beep level (all levels sound)
bl(level) == TRUE
NoText == Cmd("None", "None", {}, FALSE, 0, FALSE)

\* Event.X(...): its name and its arguments (a number, a text, a position)
Ev(name, arg, text, fen) == [event |-> name, arg |-> arg, text |-> text, fen |-> fen]

\* a message of msg_queue: its kind (MessageApi) and the number it carries
Message(kind, arg) == [kind |-> kind, arg |-> arg]
NoMessage == Message("none", 0)

\* ------------------------------------------------------------- variables
VARIABLES
    dgtmenu,             \* self.dgtmenu: the DgtMenu object (MenuState)
    drawresign_fen,      \* self.drawresign_fen
    play_move,           \* self.play_move
    play_fen,            \* self.play_fen
    play_turn,           \* self.play_turn
    hint_move,           \* self.hint_move
    hint_fen,            \* self.hint_fen
    hint_turn,           \* self.hint_turn
    last_move,           \* self.last_move
    last_fen,            \* self.last_fen
    last_turn,           \* self.last_turn
    score,               \* self.score
    depth,               \* self.depth
    engine_finished,     \* self.engine_finished
    leds_are_on,         \* self.leds_are_on
    show_move_or_value,  \* self.show_move_or_value
    time_control,        \* self.time_control
    config,              \* picochess.ini: the value of 'engine-level'
    alive,               \* the DgtDisplay thread has not ended with an exception
    fired,               \* Observable.fire calls made for the last message
    emitted,             \* DispatchDgt.fire calls made for the last message
    report,              \* the last DGT_FEN message taken from msg_queue
    before,              \* self.dgtmenu when that message was taken
    nfen,                \* messages counted, where a specification bounds their number
    message,             \* run's local `message`: NoMessage while it waits in get()
    lit                  \* history: squares were lit and not cleared since

moves_vars == <<play_move, play_fen, play_turn, hint_move, hint_fen, hint_turn,
                last_move, last_fen, last_turn>>

session_vars == <<drawresign_fen, moves_vars, score, depth, engine_finished, leds_are_on,
                  show_move_or_value, time_control>>

display_vars == <<dgtmenu, session_vars, config, alive, fired, emitted, report,
                  before, nfen, message, lit>>

\* ================================================== UciEngine (uci/engine.py)
\* EngineStatus (dgt/util.py)
WAIT == "WAIT"
THINK == "THINK"
PONDER == "PONDER"

VARIABLES
    status,      \* self.status
    show_best,   \* self.show_best
    res,         \* self.res: 0 (None) or the search whose result it is
    future,      \* self.future: 0 (None) or the search engine.go() returned last
    searches,    \* the searches started, in order: by which call, how far along
    events,      \* what Observable.fire has been given, in order
    caller,      \* the thread that calls go, ponder and stop: where it is
    engine,      \* self.engine: whether popen_engine found the executable (else None)
    ncalls       \* calls made so far

engine_vars == <<status, show_best, res, future, searches, events, caller, engine, ncalls>>

\* the caller between two calls; show_best is the argument of its stop(),
\* engine_status the value of self.status it has read for the event it is
\* about to fire, returned says that a stop() has returned since the last
\* search was started, overlapped that go() or ponder() was once called
\* without that
Idle ==
    [pc |-> "idle", show_best |-> FALSE, engine_status |-> WAIT, returned |-> TRUE,
     overlapped |-> FALSE]

\* UciEngine.__init__, lines 50-64: popen_engine returns the engine or None
\* (line 58 only logs that the executable was not found)
UciEngine(found) ==
    /\ engine = found
    /\ status = WAIT
    /\ show_best = TRUE
    /\ res = 0
    /\ future = 0
    /\ searches = <<>>
    /\ events = <<>>
    /\ caller = Idle
    /\ ncalls = 0

\* a UciEngine whose executable was found
EngineInit == UciEngine(TRUE)

vars == <<dispatcher_vars, display_vars, engine_vars>>

\* ------------------------------------------------------ MenuState (DgtMenu)
\* dgt/menu.py: the attributes _process_fen reads and sets through the
\* getters and setters
NewMenu ==
    [flip_board |-> FALSE, position_reverse |-> FALSE, dgt_fen |-> EmptyBoard,
     inside |-> FALSE, confirm |-> TRUE, mode |-> "NORMAL",
     engine_index |-> 0, engine_level |-> None, book_index |-> 0,
     time_mode |-> "BLITZ", time_fixed |-> 0, time_blitz |-> 0, time_fisch |-> 0,
     engine_restart |-> FALSE, engine_has_960 |-> FALSE,
     installed_engines |-> <<20, 0>>, all_books |-> 2,
     int_ip |-> None, ext_ip |-> None]

\* DgtMenu.set_position_reverse_to_flipboard()
set_position_reverse_to_flipboard(m) ==
    [m EXCEPT !.flip_board = ~m.flip_board, !.position_reverse = ~m.flip_board]
\* DgtMenu.enter_top_menu()
enter_top_menu(m) == [m EXCEPT !.inside = FALSE]
\* DgtMenu.get_engine(): self.installed_engines[index]; IndexError when the
\* index is outside the list.  An engine is the size of its level_dict.
HasEngine(m) == m.engine_index + 1 \in 1..Len(m.installed_engines)
get_engine(m) == m.installed_engines[m.engine_index + 1]

\* ------------------------------------------------- DgtDisplay: pure parts
\* lines 57-63: _exit_menu(), the MenuState after it and what it returns
exit_menu(m) ==
    IF m.inside
    THEN [menu |-> enter_top_menu(m), result |-> ~m.confirm]
    ELSE [menu |-> m, result |-> FALSE]

\* lines 592-594: _drawresign()
drawresign(m) == LET rnk == Split(m.dgt_fen) IN Slice(rnk[4], rnk[5])

\* (mutant) a raw report of a flipped board read without reversing it
FlipHandledUnreversed(fen, raw, m) ==
    IF fen = FlipPattern
    THEN [fen |-> Reverse(fen), menu |-> set_position_reverse_to_flipboard(m)]
    ELSE [fen |-> fen, menu |-> m]
\* lines 273-278: the position after flip handling, and the MenuState
FlipHandled(fen, raw, m) ==
    LET seen == IF m.flip_board /\ raw THEN Reverse(fen) ELSE fen
    IN IF seen = FlipPattern
       THEN [fen |-> Reverse(seen), menu |-> set_position_reverse_to_flipboard(m)]
       ELSE [fen |-> seen, menu |-> m]

\* (mutant) the position is never taken for the previous one
SameFenNever(fen, m) == FALSE

\* line 280: if fen == self.dgtmenu.get_dgt_fen()
SameFen(fen, m) == fen = m.dgt_fen

\* what one call of _process_fen leaves behind
Out(m, dr, f, e, c, ok) ==
    [menu |-> m, drawresign_fen |-> dr, fired |-> f, emitted |-> e, config |-> c,
     alive |-> ok]

\* A chess.Board as far as DgtDisplay asks it: the start position (its
\* Chess960 number, None for a position that was set up) and the moves made.
Game(start, moves) == [start |-> start, moves |-> moves]
\* Board.fen(): positions reached by different moves have different strings
game_fen(g) == <<g.start, g.moves>>
\* Board.turn
game_turn(g) == IF Len(g.moves) % 2 = 0 THEN "WHITE" ELSE "BLACK"
\* Board.push(move)
push(g, move) == [g EXCEPT !.moves = Append(@, move)]
\* Board.chess960_pos(): the number of a start position, None once moved
game_chess960_pos(g) == IF g.moves = <<>> THEN g.start ELSE None

\* A TimeControl (timecontrol.py): its mode, its parameter (seconds per move
\* or minutes per game) and the two clock times of its internal clocks
TimeControl(mode, par, clock) == [mode |-> mode, par |-> par, clock |-> clock]
\* TimeControl.current_clock_time(flip_board)
current_clock_time(tc, flip_board) ==
    IF flip_board THEN <<tc.clock[2], tc.clock[1]>> ELSE tc.clock
\* TimeControl.reset(): both clocks back to the start time
reset(tc) ==
    LET start == IF tc.mode = "FIXED" THEN tc.par ELSE tc.par * 60
    IN [tc EXCEPT !.clock = <<start, start>>]
\* DgtMenu.tc_fixed_map, tc_blitz_map, tc_fisch_map: the parameters of the
\* time controls the menu offers, in menu order
menu_tc_map == <<1, 3, 5, 10, 15, 30, 60, 90>>

\* the positions the messages of a game refer to: the start, after 1. e4 and
\* after 1. .. e5
NewGame == Game(Some(518), <<>>)
BlackToMove == push(NewGame, "e2e4")
WhiteToMove == push(BlackToMove, "e7e5")

\* the time controls: the one DgtDisplay is constructed with, one with a
\* fixed time per move and a blitz clock that has run (one flag has fallen)
Blitz5 == TimeControl("BLITZ", 5, <<300, 300>>)
Fixed5 == TimeControl("FIXED", 5, <<5, 5>>)
BlitzRun == TimeControl("BLITZ", 5, <<-1, 200>>)

\* the session fields the handlers read and set
Session ==
    [drawresign_fen |-> drawresign_fen,
     play_move |-> play_move, play_fen |-> play_fen, play_turn |-> play_turn,
     hint_move |-> hint_move, hint_fen |-> hint_fen, hint_turn |-> hint_turn,
     last_move |-> last_move, last_fen |-> last_fen, last_turn |-> last_turn,
     score |-> score, depth |-> depth, engine_finished |-> engine_finished,
     leds_are_on |-> leds_are_on, show_move_or_value |-> show_move_or_value,
     time_control |-> time_control]
\* the session is ss
SessionIs(ss) ==
    /\ drawresign_fen = ss.drawresign_fen
    /\ play_move = ss.play_move /\ play_fen = ss.play_fen /\ play_turn = ss.play_turn
    /\ hint_move = ss.hint_move /\ hint_fen = ss.hint_fen /\ hint_turn = ss.hint_turn
    /\ last_move = ss.last_move /\ last_fen = ss.last_fen /\ last_turn = ss.last_turn
    /\ score = ss.score /\ depth = ss.depth
    /\ engine_finished = ss.engine_finished /\ leds_are_on = ss.leds_are_on
    /\ show_move_or_value = ss.show_move_or_value
    /\ time_control = ss.time_control
\* the session a handler leaves
SessionBecomes(ss) ==
    /\ drawresign_fen' = ss.drawresign_fen
    /\ play_move' = ss.play_move /\ play_fen' = ss.play_fen /\ play_turn' = ss.play_turn
    /\ hint_move' = ss.hint_move /\ hint_fen' = ss.hint_fen /\ hint_turn' = ss.hint_turn
    /\ last_move' = ss.last_move /\ last_fen' = ss.last_fen /\ last_turn' = ss.last_turn
    /\ score' = ss.score /\ depth' = ss.depth
    /\ engine_finished' = ss.engine_finished /\ leds_are_on' = ss.leds_are_on
    /\ show_move_or_value' = ss.show_move_or_value
    /\ time_control' = ss.time_control

\* DgtDisplay.__init__, lines 40-55: the session of a new DgtDisplay, given a
\* blitz time control
NewSession ==
    [drawresign_fen |-> None,
     play_move |-> "null", play_fen |-> None, play_turn |-> None,
     hint_move |-> "null", hint_fen |-> None, hint_turn |-> None,
     last_move |-> "null", last_fen |-> None, last_turn |-> None,
     score |-> N10_score(None), depth |-> None, engine_finished |-> FALSE,
     leds_are_on |-> FALSE, show_move_or_value |-> 0, time_control |-> Blitz5]

\* the session in the middle of a game: the computer's 1. .. e5 is shown
MidGame ==
    [NewSession EXCEPT
        !.play_move = "e7e5", !.play_fen = game_fen(BlackToMove), !.play_turn = "BLACK",
        !.hint_move = "g1f3", !.hint_fen = game_fen(WhiteToMove), !.hint_turn = "WHITE",
        !.last_move = "e2e4", !.last_fen = game_fen(NewGame), !.last_turn = "WHITE",
        !.score = N10_score(Some(30)), !.depth = Some(12),
        !.engine_finished = TRUE, !.leds_are_on = TRUE]

\* DgtDisplay.__init__, lines 40-55, with a new DgtMenu; nothing reported yet
DisplayInit ==
    /\ dgtmenu = NewMenu
    /\ SessionIs(NewSession)
    /\ config = None
    /\ alive = TRUE
    /\ fired = <<>>
    /\ emitted = <<>>
    /\ report = [fen |-> EmptyBoard, raw |-> FALSE]
    /\ before = NewMenu
    /\ nfen = 0
    /\ message = NoMessage
    /\ lit = leds_are_on

\* ------------------------------------------------- Dispatcher: pure parts
\* hash(message): a hash of the command's class and of all its attribute
\* values, so two commands hash alike exactly when they are equal by value.
Hash(m) == <<m.kind, m.content, m.attrs, m.wait, m.maxtime, m.beep>>

\* (mutant) the repeat test without `and not message.beep`
DoHandleIgnoringBeep(h, m) ==
    IF m.kind \in {CLOCK_START, CLOCK_STOP, CLOCK_TIME} THEN TRUE
    ELSE IF m.kind \in {DISPLAY_MOVE, DISPLAY_TEXT}
         THEN ~(h = Hash(m))
         ELSE TRUE

\* _process_message, lines 60-68: is the command handled (forwarded)?
DoHandle(h, m) ==
    IF m.kind \in {CLOCK_START, CLOCK_STOP, CLOCK_TIME} THEN TRUE
    ELSE IF m.kind \in {DISPLAY_MOVE, DISPLAY_TEXT}
         THEN ~(h = Hash(m) /\ ~m.beep)
         ELSE TRUE

\* (mutant) only CLOCK_START invalidates the hash
NewHashStartOnly(h, m) ==
    IF m.kind \in {CLOCK_START} THEN NoHash
    ELSE IF m.kind \in {DISPLAY_MOVE, DISPLAY_TEXT}
         THEN (IF h = Hash(m) /\ ~m.beep THEN h ELSE Hash(m))
         ELSE h

\* _process_message, lines 60-68: display_hash after the command
NewHash(h, m) ==
    IF m.kind \in {CLOCK_START, CLOCK_STOP, CLOCK_TIME} THEN NoHash
    ELSE IF m.kind \in {DISPLAY_MOVE, DISPLAY_TEXT}
         THEN (IF h = Hash(m) /\ ~m.beep THEN h ELSE Hash(m))
         ELSE h

\* line 72: hasattr(message, 'maxtime') and message.maxtime > 0
StartsTimer(m) == "maxtime" \in m.attrs /\ m.maxtime > 0

\* (mutant) a command without a wait attribute taken for one with wait=False
RouteMissingAsFalse(running, m) ==
    IF running
    THEN IF "wait" \in m.attrs /\ m.wait THEN "append" ELSE "cancel"
    ELSE "lock"

\* (mutant) line 92 `if message.wait` taken as always true
RouteDeferAll(running, m) ==
    IF running
    THEN IF "wait" \in m.attrs
         THEN "append"
         ELSE "lock"
    ELSE "lock"

\* run, lines 90-107: where the consumer goes after reading maxtimer_running
Route(running, m) ==
    IF running
    THEN IF "wait" \in m.attrs
         THEN (IF m.wait THEN "append" ELSE "cancel")
         ELSE "lock"
    ELSE "lock"

\* where a thread continues after `with self.process_lock: ...`
After(t) == IF t = Consumer THEN "get" ELSE "check"

\* line 73 creates a new Timer object for every command that has a maxtime;
\* a command passes _process_message once, so the Timer is named after it
NewTimer(t) == msg[t].id

\* ---------------------------------------------------------------- Init
\* Dispatcher.__init__, lines 29-38; n commands will be submitted
DispatcherInit(n) ==
    /\ maxtimer = NoTimer
    /\ maxtimer_running = FALSE
    /\ tasks = <<>>
    /\ display_hash = NoHash
    /\ process_lock = Free
    /\ pc = [t \in Threads |-> IF t = Consumer THEN "get" ELSE "idle"]
    /\ msg = [t \in Threads |-> NoMsg]
    /\ mine = [t \in Threads |-> NoTimer]
    /\ sink = <<>>
    /\ nsub = 0
    /\ limit = n
    /\ shown = {}
    /\ prev = [cmd |-> NoMsg, handled |-> FALSE]
    /\ cancellers = {}
    /\ joined = NoTimer

Init == DispatcherInit(MaxMsgs) /\ DisplayInit /\ EngineInit

\* ------------------------------------------------ Dispatcher.run (thread 0)
\* lines 87-107: take a command, read maxtimer_running, choose the branch
Get(c) ==
    /\ pc[Consumer] = "get"
    /\ nsub < limit
    /\ nsub' = nsub + 1
    /\ msg' = [msg EXCEPT ![Consumer] = [id |-> nsub + 1] @@ c]
    /\ pc' = [pc EXCEPT ![Consumer] = Route(maxtimer_running, c)]
    /\ UNCHANGED <<maxtimer, maxtimer_running, tasks, display_hash, process_lock,
                   mine, sink, limit, shown, prev, cancellers, joined>>
    /\ UNCHANGED <<display_vars, engine_vars>>

\* line 93: self.tasks.append(message); continue
AppendTask ==
    /\ pc[Consumer] = "append"
    /\ tasks' = Append(tasks, msg[Consumer])
    /\ pc' = [pc EXCEPT ![Consumer] = "get"]
    /\ UNCHANGED <<maxtimer, maxtimer_running, display_hash, process_lock, msg,
                   mine, sink, nsub, limit, shown, prev, cancellers, joined>>
    /\ UNCHANGED <<display_vars, engine_vars>>

\* (mutant) cancel and join taken inside `with self.process_lock`
CancelTimerUnderLock ==
    /\ pc[Consumer] = "cancel"
    /\ process_lock = Free
    /\ process_lock' = Consumer
    /\ pc' = [pc EXCEPT ![Consumer] = "join",
                        ![maxtimer] = IF @ = "waiting" THEN "idle"
                                      ELSE IF @ = "created" THEN "cancelled" ELSE @]
    /\ shown' = IF pc[maxtimer] = "waiting" THEN shown \ {maxtimer} ELSE shown
    /\ UNCHANGED <<maxtimer, maxtimer_running, tasks, display_hash,
                   msg, mine, sink, nsub, limit, prev, cancellers, joined>>
    /\ UNCHANGED <<display_vars, engine_vars>>
\* line 98: self.maxtimer.cancel() keeps a Timer that has not fired from
\* ever calling its function (also one that line 74 has not started yet);
\* it does nothing to one that has found itself not cancelled
CancelTimer ==
    /\ pc[Consumer] = "cancel"
    /\ pc' = [pc EXCEPT ![Consumer] = "join",
                        ![maxtimer] = IF @ = "waiting" THEN "idle"
                                      ELSE IF @ = "created" THEN "cancelled" ELSE @]
    /\ shown' = IF pc[maxtimer] = "waiting" THEN shown \ {maxtimer} ELSE shown
    /\ UNCHANGED <<maxtimer, maxtimer_running, tasks, display_hash, process_lock,
                   msg, mine, sink, nsub, limit, prev, cancellers, joined>>
    /\ UNCHANGED <<display_vars, engine_vars>>

\* line 99: self.maxtimer.join() is called on the Timer self.maxtimer names
\* at that moment; on a Timer that line 74 has not started yet it raises
\* RuntimeError, which run() does not catch (line 111): the thread ends
JoinTimer ==
    /\ pc[Consumer] = "join"
    /\ IF pc[maxtimer] \in {"created", "cancelled"}
       THEN /\ pc' = [pc EXCEPT ![Consumer] = "dead"]
            /\ UNCHANGED joined
       ELSE /\ pc' = [pc EXCEPT ![Consumer] = "joining"]
            /\ joined' = maxtimer
    /\ UNCHANGED <<maxtimer, maxtimer_running, tasks, display_hash, process_lock,
                   msg, mine, sink, nsub, limit, shown, prev, cancellers>>
    /\ UNCHANGED <<display_vars, engine_vars>>

\* line 99: join() returns once the Timer it was called on has ended,
\* whatever self.maxtimer names by then
JoinReturn ==
    /\ pc[Consumer] = "joining"
    /\ pc[joined] = "idle"
    /\ pc' = [pc EXCEPT ![Consumer] = "reset"]
    /\ joined' = NoTimer
    /\ UNCHANGED <<maxtimer, maxtimer_running, tasks, display_hash, process_lock,
                   msg, mine, sink, nsub, limit, shown, prev, cancellers>>
    /\ UNCHANGED <<display_vars, engine_vars>>

\* line 100: self.maxtimer_running = False
ResetRunning ==
    /\ pc[Consumer] = "reset"
    /\ maxtimer_running' = FALSE
    /\ pc' = [pc EXCEPT ![Consumer] = "clear"]
    /\ UNCHANGED <<maxtimer, tasks, display_hash, process_lock, msg, mine, sink,
                   nsub, limit, shown, prev, cancellers, joined>>
    /\ UNCHANGED <<display_vars, engine_vars>>

\* lines 101-103: if self.tasks: self.tasks = []
ClearTasks ==
    /\ pc[Consumer] = "clear"
    /\ tasks' = <<>>
    /\ pc' = [pc EXCEPT ![Consumer] = "lock"]
    /\ cancellers' = cancellers \cup {msg[Consumer].id}
    /\ UNCHANGED <<maxtimer, maxtimer_running, display_hash, process_lock, msg,
                   mine, sink, nsub, limit, shown, prev, joined>>
    /\ UNCHANGED <<display_vars, engine_vars>>

\* ------------------------------- _process_message under `with process_lock`
\* lines 109-110 / 54-55 with 60-68: acquire the lock, decide, set the hash;
\* a dropped command leaves the with-block at once (line 79)
LockAndDecide(t) ==
    /\ pc[t] = "lock"
    /\ process_lock = Free
    /\ display_hash' = NewHash(display_hash, msg[t])
    /\ prev' = [cmd |-> msg[t], handled |-> DoHandle(display_hash, msg[t])]
    /\ IF DoHandle(display_hash, msg[t])
       THEN /\ process_lock' = t
            /\ pc' = [pc EXCEPT ![t] = IF StartsTimer(msg[t]) THEN "arm" ELSE "show"]
       ELSE /\ process_lock' = Free
            /\ pc' = [pc EXCEPT ![t] = After(t)]
    /\ UNCHANGED <<maxtimer, maxtimer_running, tasks, msg, mine, sink, nsub, limit, shown, cancellers, joined>>
    /\ UNCHANGED <<display_vars, engine_vars>>

\* line 73: self.maxtimer = Timer(...)
Arm(t) ==
    /\ pc[t] = "arm"
    /\ maxtimer' = NewTimer(t)
    /\ mine' = [mine EXCEPT ![t] = NewTimer(t)]
    /\ pc' = [pc EXCEPT ![t] = "start", ![NewTimer(t)] = "created"]
    /\ UNCHANGED <<maxtimer_running, tasks, display_hash, process_lock, msg, sink,
                   nsub, limit, shown, prev, cancellers, joined>>
    /\ UNCHANGED <<display_vars, engine_vars>>

\* line 74: self.maxtimer.start(); a Timer cancelled before it was started
\* ends at once without calling its function
Start(t) ==
    /\ pc[t] = "start"
    /\ pc' = [pc EXCEPT ![t] = "setflag",
                        ![maxtimer] = IF @ = "created" THEN "waiting" ELSE "idle"]
    /\ UNCHANGED <<maxtimer, maxtimer_running, tasks, display_hash, process_lock, msg,
                   mine, sink, nsub, limit, shown, prev, cancellers, joined>>
    /\ UNCHANGED <<display_vars, engine_vars>>

\* line 76: self.maxtimer_running = True
SetRunning(t) ==
    /\ pc[t] = "setflag"
    /\ maxtimer_running' = TRUE
    /\ pc' = [pc EXCEPT ![t] = "show"]
    /\ UNCHANGED <<maxtimer, tasks, display_hash, process_lock, msg, mine, sink,
                   nsub, limit, shown, prev, cancellers, joined>>
    /\ UNCHANGED <<display_vars, engine_vars>>

\* line 77: DisplayDgt.show(message), then the with-block releases the lock
Show(t) ==
    /\ pc[t] = "show"
    /\ sink' = Append(sink, msg[t])
    /\ process_lock' = Free
    /\ shown' = IF mine[t] # NoTimer /\ pc[mine[t]] = "waiting"
                THEN shown \cup {mine[t]} ELSE shown
    /\ mine' = [mine EXCEPT ![t] = IF t = Consumer THEN NoTimer ELSE @]
    /\ pc' = [pc EXCEPT ![t] = After(t)]
    /\ UNCHANGED <<maxtimer, maxtimer_running, tasks, display_hash, msg, nsub, limit, prev, cancellers, joined>>
    /\ UNCHANGED <<display_vars, engine_vars>>

\* ------------------------- Dispatcher._stopped_maxtimer (threads 1..MaxTimers)
\* Timer.run: the interval elapses and the Timer finds itself not cancelled;
\* from here on cancel() has no effect and _stopped_maxtimer will be called
Elapse(i) ==
    /\ pc[i] = "waiting"
    /\ shown' = shown \ {i}
    /\ pc' = [pc EXCEPT ![i] = "expired"]
    /\ UNCHANGED <<maxtimer, maxtimer_running, tasks, display_hash, process_lock, msg,
                   mine, sink, nsub, limit, prev, cancellers, joined>>
    /\ UNCHANGED <<display_vars, engine_vars>>

\* line 41: self.maxtimer_running = False
Expire(i) ==
    /\ pc[i] = "expired"
    /\ maxtimer_running' = FALSE
    /\ pc' = [pc EXCEPT ![i] = "refresh"]
    /\ UNCHANGED <<maxtimer, tasks, display_hash, process_lock, msg, mine, sink,
                   nsub, limit, shown, prev, cancellers, joined>>
    /\ UNCHANGED <<display_vars, engine_vars>>

\* line 49: DisplayDgt.show(Dgt.DISPLAY_TIME(force=False, wait=True, ...))
Refresh(i) ==
    /\ pc[i] = "refresh"
    /\ sink' = Append(sink, TimeRefresh)
    /\ pc' = [pc EXCEPT ![i] = "loop"]
    /\ UNCHANGED <<maxtimer, maxtimer_running, tasks, display_hash, process_lock,
                   msg, mine, nsub, limit, shown, prev, cancellers, joined>>
    /\ UNCHANGED <<display_vars, engine_vars>>

\* lines 52-53: while self.tasks: message = self.tasks.pop(0)
PopTask(i) ==
    /\ pc[i] = "loop"
    /\ IF tasks = <<>>
       THEN /\ pc' = [pc EXCEPT ![i] = "idle"]
            /\ UNCHANGED <<tasks, msg>>
       ELSE /\ msg' = [msg EXCEPT ![i] = Head(tasks)]
            /\ tasks' = Tail(tasks)
            /\ pc' = [pc EXCEPT ![i] = "lock"]
    /\ UNCHANGED <<maxtimer, maxtimer_running, display_hash, process_lock, mine,
                   sink, nsub, limit, shown, prev, cancellers, joined>>
    /\ UNCHANGED <<display_vars, engine_vars>>

\* (mutant) the drain without the test of lines 56-57
CheckRunningNoBreak(i) ==
    /\ pc[i] = "check"
    /\ pc' = [pc EXCEPT ![i] = "loop"]
    /\ mine' = [mine EXCEPT ![i] = NoTimer]
    /\ UNCHANGED <<maxtimer, maxtimer_running, tasks, display_hash, process_lock,
                   msg, sink, nsub, limit, shown, prev, cancellers, joined>>
    /\ UNCHANGED <<display_vars, engine_vars>>
\* lines 56-57: if self.maxtimer_running: break
CheckRunning(i) ==
    /\ pc[i] = "check"
    /\ pc' = [pc EXCEPT ![i] = IF maxtimer_running THEN "idle" ELSE "loop"]
    /\ mine' = [mine EXCEPT ![i] = NoTimer]
    /\ UNCHANGED <<maxtimer, maxtimer_running, tasks, display_hash, process_lock,
                   msg, sink, nsub, limit, shown, prev, cancellers, joined>>
    /\ UNCHANGED <<display_vars, engine_vars>>

\* ------------------------------------------------------------ specification
Submit == \E c \in RaceCommands : Get(c)
SubmitAny == \E c \in Commands : Get(c)
Process == \E t \in Threads : LockAndDecide(t)
ArmTimer == \E t \in Threads : Arm(t)
StartTimer == \E t \in Threads : Start(t)
SetFlag == \E t \in Threads : SetRunning(t)
Forward == \E t \in Threads : Show(t)
TimerElapses == \E i \in TimerIds : Elapse(i)
TimerExpires == \E i \in TimerIds : Expire(i)
TimerRefresh == \E i \in TimerIds : Refresh(i)
TimerPop == \E i \in TimerIds : PopTask(i)
TimerCheck == \E i \in TimerIds : CheckRunning(i)

Next ==
    \/ Submit
    \/ AppendTask
    \/ CancelTimer
    \/ JoinTimer
    \/ JoinReturn
    \/ ResetRunning
    \/ ClearTasks
    \/ Process
    \/ ArmTimer
    \/ StartTimer
    \/ SetFlag
    \/ Forward
    \/ TimerElapses
    \/ TimerExpires
    \/ TimerRefresh
    \/ TimerPop
    \/ TimerCheck

Spec == Init /\ [][Next]_vars

\* The same threads under fair scheduling: a thread that can take its next
\* statement takes it, and a started Timer that is not cancelled expires.
LiveMsgs == 3
InitLive == DispatcherInit(LiveMsgs) /\ DisplayInit /\ EngineInit
Progress ==
    \/ AppendTask
    \/ CancelTimer
    \/ JoinTimer
    \/ JoinReturn
    \/ ResetRunning
    \/ ClearTasks
    \/ Process
    \/ ArmTimer
    \/ StartTimer
    \/ SetFlag
    \/ Forward
    \/ TimerElapses
    \/ TimerExpires
    \/ TimerRefresh
    \/ TimerPop
    \/ TimerCheck
SpecLive == InitLive /\ [][Next]_vars /\ WF_vars(Progress)

\* The same threads, fewer commands per behaviour, every kind of command.
InitDedup == DispatcherInit(DedupMsgs) /\ DisplayInit /\ EngineInit

NextDedup ==
    \/ SubmitAny
    \/ AppendTask
    \/ CancelTimer
    \/ JoinTimer
    \/ JoinReturn
    \/ ResetRunning
    \/ ClearTasks
    \/ Process
    \/ ArmTimer
    \/ StartTimer
    \/ SetFlag
    \/ Forward
    \/ TimerElapses
    \/ TimerExpires
    \/ TimerRefresh
    \/ TimerPop
    \/ TimerCheck

SpecDedup == InitDedup /\ [][NextDedup]_vars

\* The schedule of "a command with maxtime > 0, then DrainLen commands with
\* wait=true, then the Timer expires": no Timer's interval elapses before
\* the last command has been deferred.
InitDrain == DispatcherInit(DrainLen + 1) /\ DisplayInit /\ EngineInit

SubmitDrain ==
    \E c \in Commands :
        /\ IF nsub = 0 THEN StartsTimer(c) ELSE ("wait" \in c.attrs /\ c.wait)
        /\ Get(c)

ExpiresAfterSubmits ==
    /\ nsub = limit
    /\ pc[Consumer] = "get"
    /\ TimerElapses

NextDrain ==
    \/ SubmitDrain
    \/ AppendTask
    \/ Process
    \/ ArmTimer
    \/ StartTimer
    \/ SetFlag
    \/ Forward
    \/ ExpiresAfterSubmits
    \/ TimerExpires
    \/ TimerRefresh
    \/ TimerPop
    \/ TimerCheck

SpecDrain == InitDrain /\ [][NextDrain]_vars

\* ======================================== DgtDisplay._process_fen (211-399)
\* (mutant) inc taken as len(level_dict) // 8
level_index_floor(n, i) ==
    LET inc == n \div 8
    IN IF inc * i < n - 1 THEN inc * i ELSE n - 1

\* lines 290-291: inc = ceil(len(level_dict) / 8);
\* level = min(inc * level_map.index(fen), len(level_dict) - 1)
level_index(n, i) ==
    LET inc == (n + 7) \div 8
    IN IF inc * i < n - 1 THEN inc * i ELSE n - 1

\* lines 286-302: a level gesture; get_engine() outside the engine list ends
\* the call (and the thread) with an IndexError
LevelGesture(fen, m, dr, c) ==
    IF ~HasEngine(m) THEN Out(m, dr, <<>>, <<>>, c, FALSE)
    ELSE IF get_engine(m) = 0 THEN Out(m, dr, <<>>, <<>>, c, TRUE)
    ELSE LET n == get_engine(m)
             level == level_index(n, IndexOf(level_map, fen))
             x == exit_menu([m EXCEPT !.engine_level = Some(level)])
             text == [Text("M10_level") EXCEPT !.wait = x.result]
         IN Out(x.menu, dr, <<Ev("LEVEL", level, text, None)>>, <<>>, Some(level), TRUE)

\* lines 303-315: a book gesture
BookGesture(fen, m, dr, c) ==
    LET book_index == IndexOf(book_map, fen)
    IN IF book_index >= m.all_books THEN Out(m, dr, <<>>, <<>>, c, TRUE)
       ELSE LET x == exit_menu([m EXCEPT !.book_index = book_index])
                text == [Text("book") EXCEPT !.beep = bl("MAP"), !.maxtime = OneSecond,
                                             !.wait = x.result]
            IN Out(x.menu, dr, <<Ev("SET_OPENING_BOOK", book_index, text, None)>>,
                   <<>>, c, TRUE)

\* lines 316-345: an engine gesture
EngineGesture(fen, m, dr, c) ==
    IF Len(m.installed_engines) = 0
    THEN Out(m, dr, <<>>, <<Text("Y00_erroreng")>>, c, TRUE)
    ELSE LET m1 == [m EXCEPT !.engine_index = IndexOf(engine_map, fen)]
         IN IF ~HasEngine(m1) THEN Out(m1, dr, <<>>, <<>>, c, TRUE)
            ELSE LET x == exit_menu(m1)
                     eng_text == [Text("engine") EXCEPT !.beep = bl("MAP"), !.maxtime = OneSecond,
                                                        !.wait = x.result]
                     len_level == get_engine(m1)
                     m2 == IF len_level > 0
                              /\ (x.menu.engine_level = None
                                  \/ len_level <= x.menu.engine_level[1])
                           THEN [x.menu EXCEPT !.engine_level = Some(len_level - 1)]
                           ELSE x.menu
                     level_name == IF len_level > 0 THEN m2.engine_level ELSE None
                     level_event == IF len_level > 0
                              THEN <<Ev("LEVEL", m2.engine_level[1], Text("M10_level"), None)>>
                              ELSE <<>>
                 IN Out([m2 EXCEPT !.engine_restart = TRUE], dr,
                        level_event \o <<Ev("NEW_ENGINE", m1.engine_index, eng_text, None)>>,
                        <<>>, level_name, TRUE)

\* lines 346-353: a mode gesture
ModeGesture(fen, m, dr, c) ==
    LET mode == Modes[IndexOf(mode_map, fen) + 1]
        x == exit_menu([m EXCEPT !.mode = mode])
        text == [Text(mode) EXCEPT !.beep = bl("MAP"), !.maxtime = OneSecond, !.wait = x.result]
    IN Out(x.menu, dr,
           <<Ev("SET_INTERACTION_MODE", IndexOf(mode_map, fen), text, None)>>, <<>>, c, TRUE)

\* lines 354-377: a time control gesture of one of the three families
TimeGesture(fen, m, dr, c) ==
    LET m1 == IF InMap(tc_fixed_map, fen)
              THEN [m EXCEPT !.time_mode = "FIXED",
                             !.time_fixed = IndexOf(tc_fixed_map, fen)]
              ELSE IF InMap(tc_blitz_map, fen)
              THEN [m EXCEPT !.time_mode = "BLITZ",
                             !.time_blitz = IndexOf(tc_blitz_map, fen)]
              ELSE [m EXCEPT !.time_mode = "FISCHER",
                             !.time_fisch = IndexOf(tc_fisch_map, fen)]
        id == IF InMap(tc_fixed_map, fen) THEN "M10_tc_fixed"
              ELSE IF InMap(tc_blitz_map, fen) THEN "M10_tc_blitz"
              ELSE "M10_tc_fisch"
        i == IF InMap(tc_fixed_map, fen) THEN m1.time_fixed
             ELSE IF InMap(tc_blitz_map, fen) THEN m1.time_blitz
             ELSE m1.time_fisch
        x == exit_menu(m1)
        text == [Text(id) EXCEPT !.wait = x.result]
    IN Out(x.menu, dr, <<Ev("SET_TIME_CONTROL", i, text, None)>>, <<>>, c, TRUE)

\* lines 65-68 and 70-73: _power_off() and _reboot()
power_off(m, dr, c) ==
    Out([m EXCEPT !.engine_restart = TRUE], dr, <<Ev("SHUTDOWN", 0, NoText, None)>>,
        <<Text("Y10_goodbye")>>, c, TRUE)
reboot(m, dr, c) ==
    Out([m EXCEPT !.engine_restart = TRUE], dr, <<Ev("REBOOT", 0, NoText, None)>>,
        <<Text("Y10_pleasewait")>>, c, TRUE)

\* lines 384-387: the draw/resign gesture, decided on self.drawresign_fen
InDrawResign(dr) == \E p \in drawresign_map : p[1] = dr
DrawResignResult(dr) == (CHOOSE p \in drawresign_map : p[1] = dr)[2]
DrawResignGesture(m, dr, c) ==
    IF m.inside THEN Out(m, dr, <<>>, <<>>, c, TRUE)
    ELSE Out(m, dr, <<[result |-> DrawResignResult(dr)] @@ Ev("DRAWRESIGN", 0, NoText, None)>>,
             <<>>, c, TRUE)

\* (mutant) every start position accepted as a new game
NoGestureAny960(fen, m, dr, c) ==
    LET pos960 == chess960_pos(fen)
    IN IF pos960 # None
       THEN Out(m, dr, <<Ev("NEW_GAME", pos960[1], NoText, None)>>, <<>>, c, TRUE)
       ELSE Out(m, dr, <<Ev("FEN", 0, NoText, fen)>>, <<>>, c, TRUE)

\* lines 388-399: no table matches
NoGesture(fen, m, dr, c) ==
    LET pos960 == chess960_pos(fen)
    IN IF pos960 # None
       THEN IF pos960 = Some(518) \/ m.engine_has_960
            THEN Out(m, dr, <<Ev("NEW_GAME", pos960[1], NoText, None)>>, <<>>, c, TRUE)
            ELSE Out(m, dr, <<>>, <<Text("Y00_error960")>>, c, TRUE)
       ELSE Out(m, dr, <<Ev("FEN", 0, NoText, fen)>>, <<>>, c, TRUE)

\* lines 286-399: fire the appropriate event
Decode(fen, m, dr, c) ==
    IF InMap(level_map, fen) THEN LevelGesture(fen, m, dr, c)
    ELSE IF InMap(book_map, fen) THEN BookGesture(fen, m, dr, c)
    ELSE IF InMap(engine_map, fen) THEN EngineGesture(fen, m, dr, c)
    ELSE IF InMap(mode_map, fen) THEN ModeGesture(fen, m, dr, c)
    ELSE IF InMap(tc_fixed_map, fen) \/ InMap(tc_blitz_map, fen) \/ InMap(tc_fisch_map, fen)
         THEN TimeGesture(fen, m, dr, c)
    ELSE IF InMap(shutdown_map, fen) THEN power_off(m, dr, c)
    ELSE IF InMap(reboot_map, fen) THEN reboot(m, dr, c)
    ELSE IF InDrawResign(dr) THEN DrawResignGesture(m, dr, c)
    ELSE NoGesture(fen, m, dr, c)

\* _process_fen(fen, raw): lines 273-284, then the decoding
process_fen(fen, raw, m, dr, c) ==
    LET h == FlipHandled(fen, raw, m)
    IN IF SameFen(h.fen, h.menu) THEN Out(h.menu, dr, <<>>, <<>>, c, TRUE)
       ELSE LET m1 == [h.menu EXCEPT !.dgt_fen = h.fen]
            IN Decode(h.fen, m1, drawresign(m1), c)

\* run and _process_message, lines 760-771 and 713-715: a DGT_FEN message
ProcessFen(r) ==
    /\ alive
    /\ nfen < MaxReports
    /\ nfen' = nfen + 1
    /\ message' = Message("DGT_FEN", 0)
    /\ report' = r
    /\ before' = dgtmenu
    /\ LET out == process_fen(r.fen, r.raw, dgtmenu, drawresign_fen, config)
       IN /\ dgtmenu' = out.menu
          /\ drawresign_fen' = out.drawresign_fen
          /\ fired' = out.fired
          /\ emitted' = out.emitted
          /\ config' = out.config
          /\ alive' = out.alive
    /\ UNCHANGED <<moves_vars, score, depth, engine_finished, leds_are_on,
                   show_move_or_value, time_control>>
    /\ UNCHANGED lit
    /\ UNCHANGED <<dispatcher_vars, engine_vars>>

DgtFen == \E r \in Reports : ProcessFen(r)

\* DgtDisplay.__init__ (lines 40-55) with a session state and a MenuState that
\* earlier messages and the menu buttons have left
InitDisplay ==
    /\ DispatcherInit(0) /\ EngineInit
    /\ \E inside \in BOOLEAN, confirm \in BOOLEAN, has960 \in BOOLEAN :
           dgtmenu = [NewMenu EXCEPT !.inside = inside, !.confirm = confirm,
                                     !.engine_has_960 = has960]
    /\ SessionIs(NewSession) \/ SessionIs(MidGame)
    /\ config = None
    /\ alive = TRUE
    /\ fired = <<>>
    /\ emitted = <<>>
    /\ report = [fen |-> EmptyBoard, raw |-> FALSE]
    /\ before = NewMenu
    /\ nfen = 0
    /\ message = NoMessage
    /\ lit = leds_are_on

NextDisplay == DgtFen

SpecDisplay == InitDisplay /\ [][NextDisplay]_vars

\* King pairs on the 5th and 4th rank, alone on the board or with rooks left
\* on the back ranks.
Rooks(rnk_5, rnk_4) ==
    Join(<<<<"r", "7">>, Empty, Empty, rnk_5, rnk_4, Empty, Empty, <<"7", "R">>>>)
KingPairs ==
    { <<<<"3", "k", "4">>, <<"4", "K", "3">>>>, <<<<"3", "K", "4">>, <<"4", "k", "3">>>>,
      <<<<"4", "k", "3">>, <<"3", "K", "4">>>>, <<<<"4", "K", "3">>, <<"3", "k", "4">>>>,
      <<<<"3", "k", "K", "3">>, Empty>>, <<<<"3", "K", "k", "3">>, Empty>>,
      <<Empty, <<"3", "k", "K", "3">>>>, <<Empty, <<"3", "K", "k", "3">>>> }
DrawReports ==
    { [fen |-> Slice(p[1], p[2]), raw |-> TRUE] : p \in KingPairs }
    \cup { [fen |-> Rooks(p[1], p[2]), raw |-> TRUE] : p \in KingPairs }
    \cup { [fen |-> f, raw |-> TRUE] : f \in { EmptyBoard, FlipPattern } }
DrawReport == \E r \in DrawReports : ProcessFen(r)
NextDraw == DrawReport
SpecDraw == InitDisplay /\ [][NextDraw]_vars

\* ------------------------------------- DgtDisplay: depth, score and buttons
\* (mutant) no limit on the short form
clamp_none(s) == s
\* lines 98-101: the short form of a score at or beyond +-1000
clamp(s) ==
    LET s1 == IF int(s)[1] <= -1000 THEN <<"-", "9", "9", "9">> ELSE s
    IN IF int(s1)[1] >= 1000 THEN <<"9", "9", "9">> ELSE s1

\* lines 89-95: _score_to_string(score_val, length); None for a ValueError
score_to_string(score_val, length) ==
    LET val == int(score_val)
        width == CASE length = "s" -> 5 [] length = "m" -> 7 [] length = "l" -> 9
    IN IF val = None THEN None
       ELSE Some(SelectSeq(format_2f(val[1], width), LAMBDA c : c # "."))

\* lines 88-109: _combine_depth_and_score() of self.score and self.depth: the
\* text it returns, or the exception it ends with.  A ValueError is caught
\* (lines 106-107) and the copy is returned as far as it was changed; the
\* TypeError of '{:3d}'.format(None) is not caught.
combine_depth_and_score(sc, dp) ==
    IF int(sc.s) = None THEN [text |-> sc, raised |-> "none"]
    ELSE LET short == clamp(sc.s)
             sc1 == [sc EXCEPT !.s = short]
             l == score_to_string(LastChars(sc.l, 8), "l")
             m == score_to_string(LastChars(sc.m, 6), "m")
             s == score_to_string(LastChars(short, 4), "s")
         IN IF l = None THEN [text |-> sc1, raised |-> "none"]
            ELSE IF dp = None THEN [text |-> sc1, raised |-> "TypeError"]
            ELSE LET sc2 == [sc1 EXCEPT !.l = format_d(dp[1], 3) \o l[1]]
                 IN IF m = None THEN [text |-> sc2, raised |-> "none"]
                    ELSE LET sc3 == [sc2 EXCEPT !.m = format_d(dp[1] % 100, 2) \o m[1]]
                         IN IF s = None THEN [text |-> sc3, raised |-> "none"]
                            ELSE [text |-> [sc3 EXCEPT !.s = format_d(dp[1] % 100, 2) \o s[1],
                                                       !.rd = "DOT"],
                                  raised |-> "none"]

\* a score text as the DISPLAY_TEXT command it is
ScoreCmd(text, beep) == text @@ Cmd(DISPLAY_TEXT, text.id, MoveAttrs, FALSE, 0, beep)
\* devs={'ser', 'i2c', 'web'}
AllDevs == {"ser", "i2c", "web"}
\* lines 111-113: _get_clock_side(turn); a turn of None is not chess.WHITE
get_clock_side(turn) == IF turn = "WHITE" THEN "LEFT" ELSE "RIGHT"
\* Dgt.DISPLAY_MOVE(move=.., fen=.., side=.., wait=.., maxtime=.., beep=..,
\* devs={'ser', 'i2c', 'web'}), the side being that of the turn
DisplayMove(move, fen, turn, wait, maxtime, beep) ==
    [fen |-> fen, side |-> get_clock_side(turn), devs |-> AllDevs]
        @@ Cmd(DISPLAY_MOVE, move, MoveAttrs, wait, maxtime, beep)
\* Dgt.DISPLAY_TIME(force=True, wait=True, devs=..)
DisplayTime(devs) ==
    [force |-> TRUE, devs |-> devs] @@ Cmd(DISPLAY_TIME, "time", {"wait"}, TRUE, 0, FALSE)
\* Dgt.CLOCK_START(time_left=.., time_right=.., side=.., wait=.., devs=..)
ClockStart(times, side, wait, devs) ==
    [time_left |-> times[1], time_right |-> times[2], side |-> side, devs |-> devs]
        @@ Cmd(CLOCK_START, "clk", {"wait"}, wait, 0, FALSE)
LightClear == Cmd(LIGHT_CLEAR, "led", {}, FALSE, 0, FALSE)
LightSquares(move) == Cmd(LIGHT_SQUARES, move, {}, FALSE, 0, FALSE)

\* what a handler leaves: session, MenuState, the commands and events of this
\* message, and whether it returned
Left(ss, m, e, f, ok) == [session |-> ss, menu |-> m, emitted |-> e, fired |-> f, alive |-> ok]

\* lines 596-609: the command _exit_display() sends
exit_display(ss, m) ==
    IF ss.play_move # "null" /\ m.mode \in {"NORMAL", "REMOTE"}
    THEN DisplayMove(ss.play_move, ss.play_fen, ss.play_turn, TRUE, OneSecond, bl("BUTTON"))
    ELSE IF m.inside THEN [Text("menu") EXCEPT !.wait = TRUE]
    ELSE DisplayTime(AllDevs)

\* (mutant) the move shown without asking whether there is one
show_move_unguarded(move, fen, turn) ==
    DisplayMove(move, fen, turn, FALSE, OneSecond, bl("BUTTON"))
\* lines 127-132 and 166-171: the move if there is one (a null move is
\* false), else the 'no move' text
show_move(move, fen, turn) ==
    IF move # "null" THEN DisplayMove(move, fen, turn, FALSE, OneSecond, bl("BUTTON"))
    ELSE Text("B10_nomove")

\* lines 118-134: button 0; `leaves` tells whether dgtmenu.up() returned no
\* text (the menu was left)
process_button0(leaves, ss, m) ==
    IF m.inside
    THEN IF leaves
         THEN LET m1 == enter_top_menu(m)
              IN Left(ss, m1, <<exit_display(ss, m1)>>, <<>>, TRUE)
         ELSE Left(ss, m, <<Text("menu")>>, <<>>, TRUE)
    ELSE Left(ss, m, <<show_move(ss.last_move, ss.last_fen, ss.last_turn),
                       exit_display(ss, m)>>, <<>>, TRUE)

\* lines 136-145: button 1
process_button1(ss, m) ==
    IF m.inside THEN Left(ss, m, <<Text("menu")>>, <<>>, TRUE)
    ELSE LET c == combine_depth_and_score(ss.score, ss.depth)
         IN IF c.raised # "none" THEN Left(ss, m, <<>>, <<>>, FALSE)
            ELSE Left(ss, m, <<ScoreCmd(c.text, bl("BUTTON")), exit_display(ss, m)>>, <<>>,
                      TRUE)

\* (mutant) button 2 without the reset of engine_finished
process_button2_reentrant(ss, m) ==
    IF m.mode \in {"ANALYSIS", "KIBITZ", "PONDER"}
    THEN Left(ss, m, <<Text("B00_nofunction")>>, <<>>, TRUE)
    ELSE IF ss.engine_finished
    THEN Left(ss, m, <<>>, <<Ev("ALTERNATIVE_MOVE", 0, NoText, None)>>, TRUE)
    ELSE Left(ss, m, <<>>, <<Ev("PAUSE_RESUME", 0, NoText, None)>>, TRUE)
\* lines 147-159: button 2
process_button2(ss, m) ==
    IF m.mode \in {"ANALYSIS", "KIBITZ", "PONDER"}
    THEN Left(ss, m, <<Text("B00_nofunction")>>, <<>>, TRUE)
    ELSE IF ss.engine_finished
    THEN Left([ss EXCEPT !.engine_finished = FALSE], m, <<>>,
              <<Ev("ALTERNATIVE_MOVE", 0, NoText, None)>>, TRUE)
    ELSE Left(ss, m, <<>>, <<Ev("PAUSE_RESUME", 0, NoText, None)>>, TRUE)

\* lines 161-173: button 3
process_button3(ss, m) ==
    IF m.inside THEN Left(ss, m, <<Text("menu")>>, <<>>, TRUE)
    ELSE Left(ss, m, <<show_move(ss.hint_move, ss.hint_fen, ss.hint_turn),
                       exit_display(ss, m)>>, <<>>, TRUE)

\* lines 175-181: button 4; dgtmenu.down() opens the menu, or moves in it, or
\* returns no text
process_button4(leaves, ss, m) ==
    IF m.inside /\ leaves
    THEN Left(ss, enter_top_menu(m), <<>>, <<Ev("EXIT_MENU", 0, NoText, None)>>, TRUE)
    ELSE Left(ss, [m EXCEPT !.inside = TRUE], <<Text("menu")>>, <<>>, TRUE)

\* (mutant) the lever handled inside the menu as outside
process_lever_in_menu(ss, m) ==
    Left([ss EXCEPT !.play_move = "null", !.play_fen = None, !.play_turn = None], m, <<>>,
         <<Ev("SWITCH_SIDES", IF ss.engine_finished THEN 1 ELSE 0, NoText, None)>>, TRUE)
\* lines 183-189: the lever
process_lever(ss, m) ==
    IF ~m.inside
    THEN Left([ss EXCEPT !.play_move = "null", !.play_fen = None, !.play_turn = None], m, <<>>,
              <<Ev("SWITCH_SIDES", IF ss.engine_finished THEN 1 ELSE 0, NoText, None)>>, TRUE)
    ELSE Left(ss, m, <<>>, <<>>, TRUE)

\* (mutant) the power code handled whatever the restart flag says
power_button_always(m) == TRUE
\* lines 193 and 204: the power code is looked at inside the same
\* `if not self.dgtmenu.get_engine_restart()` as the other buttons
power_button(m) == ~m.engine_restart

\* lines 204-205: _power_off(message.dev) for the power code
process_power(ss, m) ==
    LET out == power_off(m, ss.drawresign_fen, None)
    IN Left(ss, out.menu, out.emitted, out.fired, TRUE)

\* (mutant) the buttons handled whatever the restart flag says
process_button_unguarded(button, leaves, ss, m) ==
    IF button = 17
    THEN IF power_button(m) THEN process_power(ss, m) ELSE Left(ss, m, <<>>, <<>>, TRUE)
    ELSE CASE button = 0 -> process_button0(leaves, ss, m)
           [] button = 1 -> process_button1(ss, m)
           [] button = 2 -> process_button2(ss, m)
           [] button = 3 -> process_button3(ss, m)
           [] button = 4 -> process_button4(leaves, ss, m)
           [] button \in {64, -64} -> process_lever(ss, m)
           [] OTHER -> Left(ss, m, <<>>, <<>>, TRUE)
\* lines 191-209: _process_button(message)
process_button(button, leaves, ss, m) ==
    IF button = 17
    THEN IF power_button(m) THEN process_power(ss, m) ELSE Left(ss, m, <<>>, <<>>, TRUE)
    ELSE IF m.engine_restart THEN Left(ss, m, <<>>, <<>>, TRUE)
    ELSE CASE button = 0 -> process_button0(leaves, ss, m)
           [] button = 1 -> process_button1(ss, m)
           [] button = 2 -> process_button2(ss, m)
           [] button = 3 -> process_button3(ss, m)
           [] button = 4 -> process_button4(leaves, ss, m)
           [] button \in {64, -64} -> process_lever(ss, m)
           [] OTHER -> Left(ss, m, <<>>, <<>>, TRUE)

\* ------------------------------------------ DgtDisplay: moves and lights
\* lines 75-86: _reset_moves_and_score()
reset_moves_and_score(ss) ==
    [ss EXCEPT !.play_move = "null", !.play_fen = None, !.play_turn = None,
               !.hint_move = "null", !.hint_fen = None, !.hint_turn = None,
               !.last_move = "null", !.last_fen = None, !.last_turn = None,
               !.score = N10_score(None), !.depth = None]

\* (mutant) lights left on when the next computer move arrives
stale_lights_kept(ss) == <<>>
\* lines 452-454: a computer move clears lights that are still on
stale_lights(ss) == IF ss.leds_are_on THEN <<LightClear>> ELSE <<>>
\* lines 436-438 (and 420-422, 482-485, 494-497, 638-640, 655-657)
clear_lights(ss) == IF ss.leds_are_on THEN <<LightClear>> ELSE <<>>

\* lines 401-408: _process_engine_ready(message); message.eng is the index of
\* the installed engine with its file, or no index of the list
process_engine_ready(taken, ss, m) ==
    LET m1 == IF taken.eng + 1 \in 1..Len(m.installed_engines)
              THEN [m EXCEPT !.engine_index = taken.eng] ELSE m
    IN Left(ss, [m1 EXCEPT !.engine_has_960 = taken.has_960, !.engine_restart = FALSE],
            IF ~m.confirm \/ ~taken.show_ok THEN <<taken.eng_text>> ELSE <<>>, <<>>, TRUE)

\* lines 410-417: _process_engine_startup(message); message.engines is what
\* get_installed_engines() finds, message.file the index of the engine file
\* in it, or no index of the list
process_engine_startup(taken, ss, m) ==
    LET m1 == [m EXCEPT !.installed_engines = taken.engines]
    IN Left(ss,
            IF taken.file + 1 \in 1..Len(taken.engines)
            THEN [m1 EXCEPT !.engine_index = taken.file,
                            !.engine_has_960 = taken.has_960,
                            !.engine_level = taken.level_index]
            ELSE m1,
            <<>>, <<>>, TRUE)

\* lines 419-433: _process_start_new_game(message)
process_start_new_game(taken, ss, m) ==
    LET pos960 == game_chess960_pos(taken.game)
        game_text == IF pos960 = None \/ pos960 = Some(518) THEN "C10_newgame"
                     ELSE "C10_ucigame"
        str_pos960 == IF pos960 = None THEN <<"N", "o", "n", "e">> ELSE str(pos960[1])
        timectrl == reset(ss.time_control)
    IN Left([reset_moves_and_score(ss) EXCEPT !.leds_are_on = FALSE,
                                              !.engine_finished = FALSE,
                                              !.time_control = timectrl],
            m,
            clear_lights(ss)
                \o (IF taken.newgame THEN <<[msg |-> str_pos960] @@ Text(game_text)>> ELSE <<>>)
                \o (IF m.mode \in {"NORMAL", "OBSERVE", "REMOTE"}
                    THEN <<ClockStart(current_clock_time(timectrl, m.flip_board), "NONE", TRUE,
                                      AllDevs)>>
                    ELSE <<>>),
            <<>>, TRUE)

\* lines 435-449: _process_computer_move_done()
process_computer_move_done(ss, m) ==
    Left([ss EXCEPT !.leds_are_on = FALSE,
                    !.last_move = ss.play_move, !.last_fen = ss.play_fen,
                    !.last_turn = ss.play_turn,
                    !.play_move = "null", !.play_fen = None, !.play_turn = None,
                    !.engine_finished = FALSE], m,
         clear_lights(ss) \o (IF ~m.confirm THEN <<Text("K05_okpico")>> ELSE <<>>)
             \o (IF ss.time_control.mode = "FIXED" THEN <<DisplayTime(AllDevs)>> ELSE <<>>),
         <<>>, TRUE)

\* lines 451-479: _process_computer_move(message)
process_computer_move(taken, ss, m) ==
    LET move == taken.move
        ponder == taken.ponder
        game_copy == push(taken.game, move)
    IN Left([ss EXCEPT !.engine_finished = TRUE,
                       !.play_move = move, !.play_fen = game_fen(taken.game),
                       !.play_turn = game_turn(taken.game),
                       !.hint_move = IF ponder # "null" THEN ponder ELSE "null",
                       !.hint_fen = IF ponder # "null" THEN game_fen(game_copy) ELSE None,
                       !.hint_turn = IF ponder # "null" THEN game_turn(game_copy) ELSE None,
                       !.leds_are_on = TRUE], m,
            stale_lights(ss)
                \o <<DisplayMove(move, game_fen(taken.game), game_turn(taken.game),
                                 taken.wait, 0, bl("CONFIG")),
                     LightSquares(move)>>,
            <<>>, TRUE)

\* (mutant) the acknowledgement shown when get_confirm() is true
process_user_move_done_confirmed(taken, ss, m) ==
    Left([ss EXCEPT !.leds_are_on = FALSE, !.last_move = taken.move,
                    !.last_fen = taken.fen, !.last_turn = taken.turn,
                    !.engine_finished = FALSE], m,
         clear_lights(ss) \o (IF m.confirm THEN <<Text("K05_okuser")>> ELSE <<>>), <<>>, TRUE)
\* lines 481-491: _process_user_move_done(message)
process_user_move_done(taken, ss, m) ==
    Left([ss EXCEPT !.leds_are_on = FALSE, !.last_move = taken.move,
                    !.last_fen = taken.fen, !.last_turn = taken.turn,
                    !.engine_finished = FALSE], m,
         clear_lights(ss) \o (IF ~m.confirm THEN <<Text("K05_okuser")>> ELSE <<>>), <<>>, TRUE)

\* lines 493-502: _process_review_move_done(message)
process_review_move_done(taken, ss, m) ==
    Left([ss EXCEPT !.leds_are_on = FALSE, !.last_move = taken.move,
                    !.last_fen = taken.fen, !.last_turn = taken.turn], m,
         clear_lights(ss) \o (IF ~m.confirm THEN <<Text("K05_okmove")>> ELSE <<>>), <<>>, TRUE)

\* lines 637-642: an ALTERNATIVE_MOVE message
process_alternative_move(ss, m) ==
    Left([ss EXCEPT !.leds_are_on = FALSE], m, clear_lights(ss) \o <<Text("B05_altmove")>>,
         <<>>, TRUE)

\* lines 643-646: a LEVEL message
process_level(taken, ss, m) ==
    Left(ss, m, IF ~m.engine_restart THEN <<taken.level_text>> ELSE <<>>, <<>>, TRUE)

\* lines 504-510: _process_time_control(message)
process_time_control(taken, ss, m) ==
    LET timectrl == taken.tc_init
    IN Left([ss EXCEPT !.time_control = timectrl], m,
            (IF ~m.confirm \/ ~taken.show_ok THEN <<taken.time_text>> ELSE <<>>)
                \o <<ClockStart(current_clock_time(timectrl, m.flip_board), "NONE", TRUE,
                                AllDevs)>>,
            <<>>, TRUE)

\* lines 650-653: an OPENING_BOOK message
process_opening_book(taken, ss, m) ==
    Left(ss, m, IF ~m.confirm \/ ~taken.show_ok THEN <<taken.book_text>> ELSE <<>>,
         <<>>, TRUE)

\* lines 654-661: a TAKE_BACK message
process_take_back(ss, m) ==
    Left([reset_moves_and_score(ss) EXCEPT !.leds_are_on = FALSE, !.engine_finished = FALSE],
         m, clear_lights(ss) \o <<Text("C10_takeback")>>, <<>>, TRUE)

\* lines 662-668: a GAME_ENDS message
process_game_ends(taken, ss, m) ==
    Left(ss, m,
         IF ~m.engine_restart
         THEN <<[Text(taken.result) EXCEPT !.beep = bl("CONFIG"), !.maxtime = HalfSecond]>>
         ELSE <<>>,
         <<>>, TRUE)

\* lines 669-674: an INTERACTION_MODE message
process_interaction_mode(taken, ss, m) ==
    Left([ss EXCEPT !.engine_finished = FALSE], m,
         IF ~m.confirm \/ ~taken.show_ok THEN <<taken.mode_text>> ELSE <<>>, <<>>, TRUE)

\* (mutant) the score shown although the menu is open
process_new_score_in_menu(taken, ss, m) ==
    LET text == IF taken.mate = None
                THEN N10_score(Some(IF taken.turn = "BLACK" THEN -taken.score
                                    ELSE taken.score))
                ELSE N10_mate(str(taken.mate[1]))
        c == combine_depth_and_score(text, ss.depth)
    IN IF taken.mode = "KIBITZ"
       THEN IF c.raised # "none"
            THEN Left([ss EXCEPT !.score = text], m, <<>>, <<>>, FALSE)
            ELSE Left([ss EXCEPT !.score = text], m, <<ScoreCmd(c.text, FALSE)>>, <<>>, TRUE)
       ELSE Left([ss EXCEPT !.score = text], m, <<>>, <<>>, TRUE)
\* lines 512-522: _process_new_score(message)
process_new_score(taken, ss, m) ==
    LET text == IF taken.mate = None
                THEN N10_score(Some(IF taken.turn = "BLACK" THEN -taken.score
                                    ELSE taken.score))
                ELSE N10_mate(str(taken.mate[1]))
        c == combine_depth_and_score(text, ss.depth)
    IN IF taken.mode = "KIBITZ" /\ ~m.inside
       THEN IF c.raised # "none"
            THEN Left([ss EXCEPT !.score = text], m, <<>>, <<>>, FALSE)
            ELSE Left([ss EXCEPT !.score = text], m, <<ScoreCmd(c.text, FALSE)>>, <<>>, TRUE)
       ELSE Left([ss EXCEPT !.score = text], m, <<>>, <<>>, TRUE)

\* lines 681-684: a BOOK_MOVE message
process_book_move(ss, m) ==
    Left([ss EXCEPT !.score = N10_score(None)], m, <<Text("N10_bookmove")>>, <<>>, TRUE)

\* (mutant) the principal variation shown although the menu is open
process_new_pv_in_menu(taken, ss, m) ==
    LET ss1 == [ss EXCEPT !.hint_move = taken.pv[1], !.hint_fen = game_fen(taken.game),
                          !.hint_turn = game_turn(taken.game)]
    IN Left(ss1, m,
            IF taken.mode = "ANALYSIS"
            THEN <<DisplayMove(ss1.hint_move, ss1.hint_fen, ss1.hint_turn, TRUE, 0, bl("NO"))>>
            ELSE <<>>,
            <<>>, TRUE)
\* lines 524-532: _process_new_pv(message)
process_new_pv(taken, ss, m) ==
    LET ss1 == [ss EXCEPT !.hint_move = taken.pv[1], !.hint_fen = game_fen(taken.game),
                          !.hint_turn = game_turn(taken.game)]
    IN Left(ss1, m,
            IF taken.mode = "ANALYSIS" /\ ~m.inside
            THEN <<DisplayMove(ss1.hint_move, ss1.hint_fen, ss1.hint_turn, TRUE, 0, bl("NO"))>>
            ELSE <<>>,
            <<>>, TRUE)

\* lines 534-560: _process_startup_info(message)
process_startup_info(taken, ss, m) ==
    LET timectrl == taken.info.time_control
        m1 == [m EXCEPT !.mode = taken.info.interaction_mode,
                        !.book_index = taken.info.book_index,
                        !.all_books = taken.info.books,
                        !.time_mode = timectrl.mode]
        found == InMap(menu_tc_map, timectrl.par)
        index == IndexOf(menu_tc_map, timectrl.par) - 1
    IN Left([ss EXCEPT !.time_control = timectrl],
            IF ~found THEN m1
            ELSE CASE timectrl.mode = "FIXED" -> [m1 EXCEPT !.time_fixed = index]
                   [] timectrl.mode = "BLITZ" -> [m1 EXCEPT !.time_blitz = index]
                   [] timectrl.mode = "FISCHER" -> [m1 EXCEPT !.time_fisch = index]
                   [] OTHER -> m1,
            <<>>, <<>>, TRUE)

\* lines 562-574: _process_clock_start(message)
process_clock_start(taken, ss, m) ==
    LET timectrl == taken.tc_init
        times == current_clock_time(timectrl, m.flip_board)
        time_left == IF timectrl.mode = "FIXED" THEN timectrl.par
                     ELSE IF times[1] < 0 THEN 0 ELSE times[1]
        time_right == IF timectrl.mode = "FIXED" THEN timectrl.par
                      ELSE IF times[2] < 0 THEN 0 ELSE times[2]
    IN Left([ss EXCEPT !.time_control = timectrl], m,
            <<ClockStart(<<time_left, time_right>>, get_clock_side(taken.turn), FALSE,
                         taken.devs)>>,
            <<>>, TRUE)

\* lines 716-723: a DGT_CLOCK_VERSION message
process_dgt_clock_version(taken, ss, m) ==
    Left(ss, m,
         (IF taken.dev = "ser" THEN <<taken.text>> ELSE <<>>)
             \o <<ClockStart(current_clock_time(ss.time_control, m.flip_board), "NONE", TRUE,
                             {taken.dev}),
                  [main |-> taken.main, sub |-> taken.sub, dev |-> taken.dev]
                      @@ Cmd("CLOCK_VERSION", "clk", {}, FALSE, 0, FALSE)>>,
         <<>>, TRUE)

\* lines 724-727: a DGT_CLOCK_TIME message
process_dgt_clock_time(taken, ss, m) ==
    Left(ss, m,
         <<[time_left |-> taken.time_left, time_right |-> taken.time_right,
            dev |-> taken.dev] @@ Cmd(CLOCK_TIME, "clk", {}, FALSE, 0, FALSE)>>,
         <<>>, TRUE)

\* DgtMenu.get_ponderinterval() (dgt/menu.py): seconds between the two displays
PonderInterval == 1

\* lines 576-590: _process_dgt_serial_nr(), the tick of the board's watchdog
process_dgt_serial_nr(ss, m) ==
    IF m.mode = "PONDER" /\ ~m.inside
    THEN LET c == combine_depth_and_score(ss.score, ss.depth)
             next == (ss.show_move_or_value + 1) % (PonderInterval * 2)
         IN IF ss.show_move_or_value >= PonderInterval
            THEN Left([ss EXCEPT !.show_move_or_value = next], m,
                      <<IF ss.hint_move # "null"
                        THEN DisplayMove(ss.hint_move, ss.hint_fen, ss.hint_turn, TRUE,
                                         OneSecond, bl("NO"))
                        ELSE [Text("N10_nomove") EXCEPT !.wait = TRUE]>>, <<>>, TRUE)
            ELSE IF c.raised # "none" THEN Left(ss, m, <<>>, <<>>, FALSE)
            ELSE Left([ss EXCEPT !.show_move_or_value = next], m,
                      <<[ScoreCmd(c.text, FALSE) EXCEPT !.wait = TRUE]>>, <<>>, TRUE)
    ELSE Left(ss, m, <<>>, <<>>, TRUE)

\* lines 743-749: a SWITCH_SIDES message
process_switch_sides(ss, m) ==
    Left([ss EXCEPT !.engine_finished = FALSE, !.hint_move = "null", !.hint_fen = None,
                    !.hint_turn = None], m, <<>>, <<>>, TRUE)

\* lines 713-715: a DGT_FEN message
process_dgt_fen(taken, ss, m, c) ==
    LET out == process_fen(taken.fen, taken.raw, m, ss.drawresign_fen, c)
    IN [config |-> out.config]
           @@ Left([ss EXCEPT !.drawresign_fen = out.drawresign_fen], out.menu, out.emitted,
                   out.fired, out.alive)

\* lines 611-758: _process_message(message), the case of each MessageApi kind;
\* `leaves` tells what the DgtMenu navigation of a button press returns
process_message(taken, leaves, ss, m, c) ==
    LET kind == taken.kind
    IN IF kind = "DGT_FEN" THEN process_dgt_fen(taken, ss, m, c)
       ELSE [config |-> c] @@
            CASE kind = "ENGINE_READY" -> process_engine_ready(taken, ss, m)
              [] kind = "ENGINE_STARTUP" -> process_engine_startup(taken, ss, m)
              [] kind = "ENGINE_FAIL" -> Left(ss, m, <<Text("Y00_erroreng")>>, <<>>, TRUE)
              [] kind = "COMPUTER_MOVE" -> process_computer_move(taken, ss, m)
              [] kind = "START_NEW_GAME" -> process_start_new_game(taken, ss, m)
              [] kind = "COMPUTER_MOVE_DONE" -> process_computer_move_done(ss, m)
              [] kind = "USER_MOVE_DONE" -> process_user_move_done(taken, ss, m)
              [] kind = "REVIEW_MOVE_DONE" -> process_review_move_done(taken, ss, m)
              [] kind = "ALTERNATIVE_MOVE" -> process_alternative_move(ss, m)
              [] kind = "LEVEL" -> process_level(taken, ss, m)
              [] kind = "TIME_CONTROL" -> process_time_control(taken, ss, m)
              [] kind = "OPENING_BOOK" -> process_opening_book(taken, ss, m)
              [] kind = "TAKE_BACK" -> process_take_back(ss, m)
              [] kind = "GAME_ENDS" -> process_game_ends(taken, ss, m)
              [] kind = "INTERACTION_MODE" -> process_interaction_mode(taken, ss, m)
              [] kind = "PLAY_MODE" -> Left(ss, m, <<taken.play_mode_text>>, <<>>, TRUE)
              [] kind = "NEW_SCORE" -> process_new_score(taken, ss, m)
              [] kind = "BOOK_MOVE" -> process_book_move(ss, m)
              [] kind = "NEW_PV" -> process_new_pv(taken, ss, m)
              [] kind = "NEW_DEPTH" -> Left([ss EXCEPT !.depth = Some(taken.depth)], m,
                                            <<>>, <<>>, TRUE)
              [] kind = "IP_INFO" -> Left(ss, [m EXCEPT !.int_ip = taken.info.int_ip,
                                                        !.ext_ip = taken.info.ext_ip],
                                          <<>>, <<>>, TRUE)
              [] kind = "STARTUP_INFO" -> process_startup_info(taken, ss, m)
              [] kind = "SEARCH_STARTED" -> Left(ss, m, <<>>, <<>>, TRUE)
              [] kind = "SEARCH_STOPPED" -> Left(ss, m, <<>>, <<>>, TRUE)
              [] kind = "CLOCK_START" -> process_clock_start(taken, ss, m)
              [] kind = "CLOCK_STOP" ->
                     Left(ss, m, <<[devs |-> taken.devs]
                                       @@ Cmd(CLOCK_STOP, "clk", {}, FALSE, 0, FALSE)>>,
                          <<>>, TRUE)
              [] kind = "DGT_BUTTON" -> process_button(taken.arg, leaves, ss, m)
              [] kind = "DGT_CLOCK_VERSION" -> process_dgt_clock_version(taken, ss, m)
              [] kind = "DGT_CLOCK_TIME" -> process_dgt_clock_time(taken, ss, m)
              [] kind = "DGT_SERIAL_NR" -> process_dgt_serial_nr(ss, m)
              [] kind = "DGT_JACK_CONNECTED_ERROR" ->
                     Left(ss, m, <<Text("Y00_errorjack")>>, <<>>, TRUE)
              [] kind = "DGT_EBOARD_VERSION" ->
                     Left(ss, m, <<taken.text, DisplayTime({"i2c"})>>, <<>>, TRUE)
              [] kind = "DGT_NO_EBOARD_ERROR" -> Left(ss, m, <<taken.text>>, <<>>, TRUE)
              [] kind = "DGT_NO_CLOCK_ERROR" -> Left(ss, m, <<>>, <<>>, TRUE)
              [] kind = "SWITCH_SIDES" -> process_switch_sides(ss, m)
              [] kind = "EXIT_MENU" -> Left(ss, m, <<exit_display(ss, m)>>, <<>>, TRUE)
              [] kind = "WRONG_FEN" -> Left(ss, m, <<Text("C10_setpieces")>>, <<>>, TRUE)
              [] OTHER -> Left(ss, m, <<>>, <<>>, TRUE)

\* history: whether squares are lit after the commands cmds
RECURSIVE LitAfter(_, _)
LitAfter(l, cmds) ==
    IF cmds = <<>> THEN l
    ELSE LitAfter(IF Head(cmds).kind = LIGHT_SQUARES THEN TRUE
                  ELSE IF Head(cmds).kind = LIGHT_CLEAR THEN FALSE ELSE l, Tail(cmds))

\* run, line 769: what self._process_message(message) leaves when it returns
\* or ends with an exception
Returns(left) ==
    /\ dgtmenu' = left.menu
    /\ SessionBecomes(left.session)
    /\ config' = left.config
    /\ emitted' = left.emitted
    /\ fired' = left.fired
    /\ alive' = left.alive
    /\ lit' = LitAfter(lit, left.emitted)

\* run, lines 766-769: message = self.msg_queue.get() and
\* self._process_message(message), up to its return or its exception
Receive(taken, leaves) ==
    /\ alive
    /\ message' = taken
    /\ before' = dgtmenu
    /\ report' = IF taken.kind = "DGT_FEN" THEN [fen |-> taken.fen, raw |-> taken.raw]
                 ELSE report
    /\ Returns(process_message(taken, leaves, Session, dgtmenu, config))
    /\ UNCHANGED <<dispatcher_vars, engine_vars>>

\* number of messages the display thread takes in the score specification
MaxScoreMsgs == 2

\* one of the first MaxScoreMsgs messages of the score specification
Counted(taken, leaves) ==
    /\ nfen < MaxScoreMsgs
    /\ nfen' = nfen + 1
    /\ Receive(taken, leaves)

\* the scores, depths and button codes the messages carry
Scores == {-1500, -1000, -999, -5, 0, 30, 1500}
Depths == {7, 12, 112}
Buttons == {0, 1, 2, 3, 4, 17, 64, -64}

\* Message.NEW_DEPTH(depth=..), lines 688-690
NewDepth(d) == [kind |-> "NEW_DEPTH", depth |-> d]
\* Message.NEW_SCORE(score=.., mate=.., mode=.., turn=..), lines 678-680
NewScore(sc, mate, turn, mode) ==
    [kind |-> "NEW_SCORE", score |-> sc, mate |-> mate, turn |-> turn, mode |-> mode]
\* Message.DGT_BUTTON(button=.., dev=..), lines 710-712
DgtButton(button) == Message("DGT_BUTTON", button)

\* the messages of the score specification
ScoreMessages ==
    { NewDepth(d) : d \in Depths }
    \cup { NewScore(sc, None, turn, mode) :
               sc \in Scores, turn \in {"WHITE", "BLACK"}, mode \in {"NORMAL", "KIBITZ"} }
    \cup { NewScore(0, Some(3), "WHITE", mode) : mode \in {"NORMAL", "KIBITZ"} }
    \cup { DgtButton(button) : button \in Buttons }

InitScore ==
    /\ DispatcherInit(0) /\ EngineInit
    /\ \E inside \in BOOLEAN, restart \in BOOLEAN, mode \in {"NORMAL", "KIBITZ"} :
           dgtmenu = [NewMenu EXCEPT !.inside = inside, !.engine_restart = restart,
                                     !.mode = mode]
    /\ SessionIs(NewSession) \/ SessionIs(MidGame)
    /\ config = None
    /\ alive = TRUE
    /\ fired = <<>>
    /\ emitted = <<>>
    /\ report = [fen |-> EmptyBoard, raw |-> FALSE]
    /\ before = NewMenu
    /\ nfen = 0
    /\ message = NoMessage
    /\ lit = leds_are_on

\* a message is taken; for a button press the DgtMenu navigation returns a
\* text or none
NextScore ==
    \/ \E taken \in ScoreMessages : Counted(taken, FALSE)
    \/ \E taken \in { m \in ScoreMessages : m.kind = "DGT_BUTTON" } : Counted(taken, TRUE)

SpecScore == InitScore /\ [][NextScore]_vars

\* ------------------------------------- DgtDisplay.run over every message
\* run, lines 763-766: the handler has returned and the thread is back at
\* msg_queue.get(); nothing is fired or emitted for a message not yet taken
Loop ==
    /\ alive
    /\ message # NoMessage
    /\ message' = NoMessage
    /\ emitted' = <<>>
    /\ fired' = <<>>
    /\ before' = dgtmenu
    /\ UNCHANGED <<dgtmenu, session_vars, config, alive, report, nfen, lit>>
    /\ UNCHANGED <<dispatcher_vars, engine_vars>>

\* run, lines 766-769, for the thread at msg_queue.get()
Take(taken, leaves) ==
    /\ message = NoMessage
    /\ Receive(taken, leaves)
    /\ UNCHANGED nfen

\* The messages of every MessageApi kind _process_message has a case for
\* (lines 611-758), with the payloads of P, and one it has no case for.
Messages(P) ==
    { [kind |-> "ENGINE_READY", eng |-> eng, has_960 |-> has_960, show_ok |-> show_ok,
       eng_text |-> Text("engine")] :
          eng \in P.engs, has_960 \in P.has_960, show_ok \in BOOLEAN }
    \cup { [kind |-> "ENGINE_STARTUP", engines |-> NewMenu.installed_engines, file |-> 0,
            has_960 |-> has_960, level_index |-> None] : has_960 \in P.has_960 }
    \cup { [kind |-> "ENGINE_FAIL"] }
    \cup { [kind |-> "COMPUTER_MOVE", move |-> "e7e5", ponder |-> ponder,
            game |-> BlackToMove, wait |-> wait] : ponder \in P.ponders, wait \in BOOLEAN }
    \cup { [kind |-> "START_NEW_GAME", newgame |-> TRUE, game |-> Game(start, <<>>)] :
               start \in P.starts }
    \cup { [kind |-> "START_NEW_GAME", newgame |-> FALSE, game |-> BlackToMove] }
    \cup { [kind |-> "COMPUTER_MOVE_DONE"] }
    \cup { [kind |-> kind, move |-> done.move, fen |-> done.fen, turn |-> done.turn] :
               kind \in {"USER_MOVE_DONE", "REVIEW_MOVE_DONE"}, done \in P.dones }
    \cup { [kind |-> "ALTERNATIVE_MOVE"] }
    \cup { [kind |-> "LEVEL", level_text |-> Text("M10_level")] }
    \cup { [kind |-> "TIME_CONTROL", tc_init |-> tc_init, show_ok |-> show_ok,
            time_text |-> Text("time")] : tc_init \in P.tcs, show_ok \in BOOLEAN }
    \cup { [kind |-> "OPENING_BOOK", show_ok |-> show_ok, book_text |-> Text("book")] :
               show_ok \in BOOLEAN }
    \cup { [kind |-> "TAKE_BACK"] }
    \cup { [kind |-> "GAME_ENDS", result |-> "B10_mate"] }
    \cup { [kind |-> "INTERACTION_MODE", mode |-> "ANALYSIS", show_ok |-> show_ok,
            mode_text |-> Text("ANALYSIS")] : show_ok \in BOOLEAN }
    \cup { [kind |-> "PLAY_MODE", play_mode_text |-> Text("B10_playmode")] }
    \cup { NewScore(sc.score, sc.mate, sc.turn, sc.mode) : sc \in P.scores }
    \cup { [kind |-> "BOOK_MOVE"] }
    \cup { [kind |-> "NEW_PV", pv |-> <<"g1f3", "b8c6">>, game |-> WhiteToMove,
            mode |-> mode] : mode \in P.pv_modes }
    \cup { NewDepth(d) : d \in P.depths }
    \cup { [kind |-> "IP_INFO", info |-> [int_ip |-> ip, ext_ip |-> ip]] : ip \in P.ips }
    \cup { [kind |-> "STARTUP_INFO",
            info |-> [interaction_mode |-> mode, book_index |-> NewMenu.book_index,
                      books |-> NewMenu.all_books, time_control |-> Blitz5]] :
               mode \in P.modes }
    \cup { [kind |-> "SEARCH_STARTED"], [kind |-> "SEARCH_STOPPED"] }
    \cup { [kind |-> "CLOCK_START", tc_init |-> tc_init, turn |-> "WHITE",
            devs |-> {"ser"}] : tc_init \in P.clocks }
    \cup { [kind |-> "CLOCK_STOP", devs |-> {"ser"}] }
    \cup { DgtButton(button) : button \in P.buttons }
    \cup { [kind |-> "DGT_FEN", fen |-> r.fen, raw |-> r.raw] : r \in P.reports }
    \cup { [kind |-> "DGT_CLOCK_VERSION", dev |-> dev, main |-> 2, sub |-> 2,
            text |-> Text("Y20_okclock")] : dev \in {"ser", "i2c"} }
    \cup { [kind |-> "DGT_CLOCK_TIME", time_left |-> 300, time_right |-> 300,
            dev |-> "ser"] }
    \cup { [kind |-> "DGT_SERIAL_NR"], [kind |-> "DGT_JACK_CONNECTED_ERROR"] }
    \cup { [kind |-> "DGT_EBOARD_VERSION", text |-> Text("Y20_okboard")] }
    \cup { [kind |-> "DGT_NO_EBOARD_ERROR", text |-> Text("Y00_errorboard")] }
    \cup { [kind |-> "DGT_NO_CLOCK_ERROR"], [kind |-> "SWITCH_SIDES"],
           [kind |-> "EXIT_MENU"], [kind |-> "WRONG_FEN"], [kind |-> "SYSTEM_INFO"] }

\* run, lines 766-769, over the messages msgs: any of them is taken next; for
\* a press of button 0 or 4 the DgtMenu navigation (up, down) returns a text
\* or none
Run(msgs) ==
    \/ \E taken \in msgs : Take(taken, FALSE)
    \/ \E taken \in { m \in msgs : m.kind = "DGT_BUTTON" /\ m.arg \in {0, 4} } :
           Take(taken, TRUE)

\* the payloads of a game: moves with and without a ponder move, scores from
\* both sides and a mate, the interaction modes, a user's move
MovePayloads ==
    [engs |-> {0}, has_960 |-> {FALSE},
     ponders |-> {"null", "g1f3"},
     starts |-> {Some(518), Some(123), None},
     dones |-> {[move |-> "g1f3", fen |-> game_fen(WhiteToMove), turn |-> "WHITE"]},
     tcs |-> {Blitz5},
     scores |-> {[score |-> 30, mate |-> None, turn |-> "WHITE", mode |-> "NORMAL"],
                 [score |-> 30, mate |-> None, turn |-> "WHITE", mode |-> "KIBITZ"],
                 [score |-> 30, mate |-> None, turn |-> "BLACK", mode |-> "KIBITZ"],
                 [score |-> 0, mate |-> Some(3), turn |-> "WHITE", mode |-> "KIBITZ"]},
     pv_modes |-> {"NORMAL", "ANALYSIS"},
     depths |-> {12},
     ips |-> {None},
     modes |-> {"NORMAL", "ANALYSIS", "KIBITZ", "OBSERVE", "REMOTE", "PONDER"},
     clocks |-> {Blitz5},
     buttons |-> Buttons \cup {5},
     reports |-> {[fen |-> EmptyBoard, raw |-> FALSE]}]

MoveMessages == Messages(MovePayloads)

\* DgtDisplay.__init__ (lines 40-55) with the confirmation setting of the menu
InitMoves ==
    /\ DispatcherInit(0) /\ EngineInit
    /\ \E confirm \in BOOLEAN : dgtmenu = [NewMenu EXCEPT !.confirm = confirm]
    /\ SessionIs(NewSession)
    /\ config = None
    /\ alive = TRUE
    /\ fired = <<>>
    /\ emitted = <<>>
    /\ report = [fen |-> EmptyBoard, raw |-> FALSE]
    /\ before = dgtmenu
    /\ nfen = 0
    /\ message = NoMessage
    /\ lit = leds_are_on

NextMoves == Run(MoveMessages) \/ Loop

SpecMoves == InitMoves /\ [][NextMoves]_vars

\* the payloads around an engine restart: the gestures that set the flag,
\* ENGINE_READY for either engine, a fixed time per move and a run-down clock
RestartPayloads ==
    [engs |-> {1, 2}, has_960 |-> {FALSE},
     ponders |-> {"null"},
     starts |-> {Some(518)},
     dones |-> {[move |-> "e7e5", fen |-> game_fen(BlackToMove), turn |-> "BLACK"]},
     tcs |-> {Fixed5},
     scores |-> {[score |-> 30, mate |-> None, turn |-> "WHITE", mode |-> "NORMAL"]},
     pv_modes |-> {"NORMAL"},
     depths |-> {12},
     ips |-> {None},
     modes |-> {"NORMAL"},
     clocks |-> {BlitzRun},
     buttons |-> Buttons,
     reports |-> {[fen |-> f, raw |-> TRUE] :
                     f \in {shutdown_map[0], reboot_map[0], engine_map[1]}}]

RestartMessages == Messages(RestartPayloads)

NextRestart == Run(RestartMessages) \/ Loop

InitRestart == DispatcherInit(0) /\ DisplayInit /\ EngineInit

SpecRestart == InitRestart /\ [][NextRestart]_vars

\* ================================================== UciEngine (uci/engine.py)
\* calls of go, ponder and stop in one behaviour
MaxCalls == 3

\* A search the engine has been given: the call that started it, what a
\* stop() aimed at it asked for before its callback decided on the
\* BEST_MOVE, whether the engine was told to end it, how far it and its
\* done-callback are, and the value of self.status the callback has read
\* for its STOP_SEARCH event.
Search(kind) ==
    [kind |-> kind, asked |-> "none", stopped |-> FALSE, at |-> "running",
     engine_status |-> WAIT]
Running == { i \in 1..Len(searches) : searches[i].at = "running" }
\* Observable.fire(event): the event, the engine_status it carries ("none"
\* for a BEST_MOVE, which has no such attribute) and the search it belongs to
Fire(event, engine_status, of) ==
    events' = Append(events, [event |-> event, status |-> engine_status, of |-> of])

\* lines 128-131 and 139-142: go() / ponder() set the status
SetStatus(kind) ==
    /\ caller.pc = "idle"
    /\ ncalls < MaxCalls
    /\ ncalls' = ncalls + 1
    /\ status' = IF kind = "go" THEN THINK ELSE PONDER
    /\ caller' = [caller EXCEPT !.pc = kind \o "_show_best",
                                !.overlapped = @ \/ ~caller.returned]
    /\ UNCHANGED <<show_best, res, future, searches, events>>
    /\ UNCHANGED <<dispatcher_vars, display_vars, engine>>

\* lines 132 and 143: self.show_best = True / False
SetShowBest(kind) ==
    /\ caller.pc = kind \o "_show_best"
    /\ show_best' = (kind = "go")
    /\ caller' = [caller EXCEPT !.pc = kind \o "_status"]
    /\ UNCHANGED <<status, res, future, searches, events, ncalls>>
    /\ UNCHANGED <<dispatcher_vars, display_vars, engine>>

\* lines 135 and 145: the argument Event.START_SEARCH(engine_status=self.status)
\* is evaluated, which reads self.status
StartStatus(kind) ==
    /\ caller.pc = kind \o "_status"
    /\ caller' = [caller EXCEPT !.pc = kind \o "_fire", !.engine_status = status]
    /\ UNCHANGED <<status, show_best, res, future, searches, events, ncalls>>
    /\ UNCHANGED <<dispatcher_vars, display_vars, engine>>

\* lines 135 and 145: Observable.fire of the START_SEARCH event built
FireStart(kind) ==
    /\ caller.pc = kind \o "_fire"
    /\ Fire("START_SEARCH", caller.engine_status, 0)
    /\ caller' = [caller EXCEPT !.pc = kind \o "_engine"]
    /\ UNCHANGED <<status, show_best, res, future, searches, ncalls>>
    /\ UNCHANGED <<dispatcher_vars, display_vars, engine>>

\* lines 136 and 146: self.engine.go(...) hands the search to the engine and
\* returns its command; without an engine (self.engine is None) the call
\* raises AttributeError, which ends go() / ponder()
EngineGo(kind) ==
    /\ caller.pc = kind \o "_engine"
    /\ IF engine
       THEN /\ searches' = Append(searches, Search(kind))
            /\ caller' = [caller EXCEPT !.pc = kind \o "_future"]
       ELSE /\ caller' = [caller EXCEPT !.pc = "idle"]
            /\ UNCHANGED searches
    /\ UNCHANGED <<status, show_best, res, future, events, ncalls>>
    /\ UNCHANGED <<dispatcher_vars, display_vars, engine>>

\* lines 136-137 and 146-147: self.future = <the command engine.go()
\* returned, of the search this call started>; return self.future
SetFuture(kind) ==
    /\ caller.pc = kind \o "_future"
    /\ future' = Len(searches)
    /\ caller' = [caller EXCEPT !.pc = "idle", !.returned = FALSE]
    /\ UNCHANGED <<status, show_best, res, searches, events, ncalls>>
    /\ UNCHANGED <<dispatcher_vars, display_vars, engine>>

\* lines 120-123: stop(show_best) returns at once if the engine is waiting
StopCheck(sb) ==
    /\ caller.pc = "idle"
    /\ ncalls < MaxCalls
    /\ ncalls' = ncalls + 1
    /\ caller' = IF status = WAIT THEN [caller EXCEPT !.returned = TRUE]
                 ELSE [caller EXCEPT !.pc = "stop_show_best", !.show_best = sb]
    /\ UNCHANGED <<status, show_best, res, future, searches, events>>
    /\ UNCHANGED <<dispatcher_vars, display_vars, engine>>

\* line 124: self.show_best = show_best
StopShowBest ==
    /\ caller.pc = "stop_show_best"
    /\ show_best' = caller.show_best
    /\ searches' = [i \in 1..Len(searches) |->
                       IF i = future /\ searches[i].at \notin {"best_move", "wait", "closed"}
                       THEN [searches[i] EXCEPT
                                !.asked = IF caller.show_best THEN "best" ELSE "quiet"]
                       ELSE searches[i]]
    /\ caller' = [caller EXCEPT !.pc = "stop_engine"]
    /\ UNCHANGED <<status, res, future, events, ncalls>>
    /\ UNCHANGED <<dispatcher_vars, display_vars, engine>>

\* line 125: self.engine.stop() tells the engine to end the search it is
\* running; it does nothing to one that has ended; without an engine the
\* call raises AttributeError, which ends stop()
EngineStop ==
    /\ caller.pc = "stop_engine"
    /\ searches' = [i \in 1..Len(searches) |->
                       IF i \in Running /\ \A j \in Running : i <= j
                       THEN [searches[i] EXCEPT !.stopped = TRUE]
                       ELSE searches[i]]
    /\ caller' = [caller EXCEPT !.pc = IF engine THEN "stop_result" ELSE "idle"]
    /\ UNCHANGED <<status, show_best, res, future, events, ncalls>>
    /\ UNCHANGED <<dispatcher_vars, display_vars, engine>>

\* line 126: return self.future.result() waits for the result of the search
\* self.future stands for
StopResult ==
    /\ caller.pc = "stop_result"
    /\ future # 0 /\ searches[future].at # "running"
    /\ caller' = [caller EXCEPT !.pc = "idle", !.returned = TRUE]
    /\ UNCHANGED <<status, show_best, res, future, searches, events, ncalls>>
    /\ UNCHANGED <<dispatcher_vars, display_vars, engine>>

\* The engine's worker (chess.uci): it runs one search at a time; a search
\* from go() ends on its own or when stopped, one from ponder() (infinite)
\* only when stopped. The result is set, which wakes result(), and then the
\* done-callback is run.
Turn(i) == i \in 1..Len(searches) /\ \A j \in 1..(i - 1) : searches[j].at = "closed"
Finish(i) ==
    /\ Turn(i)
    /\ searches[i].at = "running"
    /\ searches[i].kind = "go" \/ searches[i].stopped
    /\ searches' = [searches EXCEPT ![i].at = "result"]
    /\ UNCHANGED <<status, show_best, res, future, events, caller, ncalls>>
    /\ UNCHANGED <<dispatcher_vars, display_vars, engine>>

\* line 150: self.res = command.result()
CallbackResult(i) ==
    /\ Turn(i)
    /\ searches[i].at = "result"
    /\ res' = i
    /\ searches' = [searches EXCEPT ![i].at = "status"]
    /\ UNCHANGED <<status, show_best, future, events, caller, ncalls>>
    /\ UNCHANGED <<dispatcher_vars, display_vars, engine>>

\* line 152: the argument Event.STOP_SEARCH(engine_status=self.status) is
\* evaluated, which reads self.status
CallbackStatus(i) ==
    /\ Turn(i)
    /\ searches[i].at = "status"
    /\ searches' = [searches EXCEPT ![i].at = "stop_search", ![i].engine_status = status]
    /\ UNCHANGED <<status, show_best, res, future, events, caller, ncalls>>
    /\ UNCHANGED <<dispatcher_vars, display_vars, engine>>

\* line 152: Observable.fire of the STOP_SEARCH event built
CallbackStopSearch(i) ==
    /\ Turn(i)
    /\ searches[i].at = "stop_search"
    /\ Fire("STOP_SEARCH", searches[i].engine_status, i)
    /\ searches' = [searches EXCEPT ![i].at = "show_best"]
    /\ UNCHANGED <<status, show_best, res, future, caller, ncalls>>
    /\ UNCHANGED <<dispatcher_vars, display_vars, engine>>

\* lines 153 and 155-156: if self.show_best: ... else: logging.debug(...)
CallbackShowBest(i) ==
    /\ Turn(i)
    /\ searches[i].at = "show_best"
    /\ searches' = [searches EXCEPT ![i].at = IF show_best THEN "best_move" ELSE "wait"]
    /\ UNCHANGED <<status, show_best, res, future, events, caller, ncalls>>
    /\ UNCHANGED <<dispatcher_vars, display_vars, engine>>

\* line 154: Observable.fire(Event.BEST_MOVE(move=self.res.bestmove, ...))
CallbackBestMove(i) ==
    /\ Turn(i)
    /\ searches[i].at = "best_move"
    /\ Fire("BEST_MOVE", "none", res)
    /\ searches' = [searches EXCEPT ![i].at = "wait"]
    /\ UNCHANGED <<status, show_best, res, future, caller, ncalls>>
    /\ UNCHANGED <<dispatcher_vars, display_vars, engine>>

\* line 157: self.status = EngineStatus.WAIT
CallbackWait(i) ==
    /\ Turn(i)
    /\ searches[i].at = "wait"
    /\ status' = WAIT
    /\ searches' = [searches EXCEPT ![i].at = "closed"]
    /\ UNCHANGED <<show_best, res, future, events, caller, ncalls>>
    /\ UNCHANGED <<dispatcher_vars, display_vars, engine>>

InitEngine == DispatcherInit(0) /\ DisplayInit /\ \E found \in BOOLEAN : UciEngine(found)

NextEngine ==
    \/ \E kind \in {"go", "ponder"} : SetStatus(kind)
    \/ \E kind \in {"go", "ponder"} : SetShowBest(kind)
    \/ \E kind \in {"go", "ponder"} : StartStatus(kind)
    \/ \E kind \in {"go", "ponder"} : FireStart(kind)
    \/ \E kind \in {"go", "ponder"} : EngineGo(kind)
    \/ \E kind \in {"go", "ponder"} : SetFuture(kind)
    \/ \E sb \in BOOLEAN : StopCheck(sb)
    \/ StopShowBest
    \/ EngineStop
    \/ StopResult
    \/ \E i \in 1..MaxCalls : Finish(i)
    \/ \E i \in 1..MaxCalls : CallbackResult(i)
    \/ \E i \in 1..MaxCalls : CallbackStatus(i)
    \/ \E i \in 1..MaxCalls : CallbackStopSearch(i)
    \/ \E i \in 1..MaxCalls : CallbackShowBest(i)
    \/ \E i \in 1..MaxCalls : CallbackBestMove(i)
    \/ \E i \in 1..MaxCalls : CallbackWait(i)

SpecEngine == InitEngine /\ [][NextEngine]_vars

\* Level gestures only, for an engine with 1..MaxLevels levels.
InitLevel ==
    /\ DispatcherInit(0) /\ EngineInit
    /\ \E n \in 1..MaxLevels, inside \in BOOLEAN, confirm \in BOOLEAN :
           dgtmenu = [NewMenu EXCEPT !.installed_engines = <<n>>, !.inside = inside,
                                     !.confirm = confirm]
    /\ SessionIs(NewSession)
    /\ config = None
    /\ alive = TRUE
    /\ fired = <<>>
    /\ emitted = <<>>
    /\ report = [fen |-> EmptyBoard, raw |-> FALSE]
    /\ before = NewMenu
    /\ nfen = 0
    /\ message = NoMessage
    /\ lit = leds_are_on

\* the level gestures as the board driver reports them
LevelReports == { [fen |-> level_map[i], raw |-> TRUE] : i \in 0..7 }
LevelReport == \E r \in LevelReports : ProcessFen(r)

NextLevel == LevelReport

SpecLevel == InitLevel /\ [][NextLevel]_vars

\* ------------------------------------------------------------ vocabulary
HasWait(c, w) == "wait" \in c.attrs /\ c.wait = w
SomeForwarded == Len(sink') = Len(sink) + 1
Last(s) == s[Len(s)]
TaskIds == { tasks[k].id : k \in 1..Len(tasks) }
IsMoveOrText(c) == c.kind \in {DISPLAY_MOVE, DISPLAY_TEXT}
IsClock(c) == c.kind \in {CLOCK_START, CLOCK_STOP, CLOCK_TIME}
\* m repeats p: the same class and attribute values, and m asks for no beep
Repeats(m, p) == IsMoveOrText(m) /\ ~m.beep /\ Hash(m) = Hash(p)
\* the same command apart from its beep
SameButBeep(m, p) ==
    /\ m.kind = p.kind /\ m.content = p.content /\ m.attrs = p.attrs
    /\ m.wait = p.wait /\ m.maxtime = p.maxtime
InSink(c) == \E j \in 1..Len(sink) : sink[j] = c
\* the step LockAndDecide(t) drops the command / goes on to forward it
Drops(t) == pc'[t] = After(t) /\ process_lock' = Free /\ sink' = sink
Handles(t) == pc'[t] \in {"arm", "show"} /\ process_lock' = t
\* the last move, text or clock command in the sink is a clock command
ClockShownLast ==
    \E j \in 1..Len(sink) :
        IsClock(sink[j]) /\ \A k \in (j + 1)..Len(sink) : ~IsMoveOrText(sink[k])
\* nothing is running and nothing is pending
Quiescent ==
    /\ pc[Consumer] = "get" /\ nsub = limit
    /\ \A i \in TimerIds : pc[i] = "idle"

TypeOK ==
    /\ maxtimer \in TimerIds \cup {NoTimer}
    /\ joined \in TimerIds \cup {NoTimer}
    /\ maxtimer_running \in BOOLEAN
    /\ process_lock \in Threads \cup {Free}
    /\ nsub \in 0..limit

\* ------------------------------------------------------------------ claims
\* C1 (as claimed): once a command with maxtime > 0 has been forwarded, no
\* command carrying wait=true is forwarded while that command's Timer is still
\* pending (neither expired nor cancelled).
C1_NoWaitForwardBeforeExpiry ==
    [][(SomeForwarded /\ HasWait(Last(sink'), TRUE)) => shown = {}]_vars

\* C2 (as claimed): a command that took the cancel branch is forwarded at once
\* and no command submitted (so: deferred) before it is forwarded after it.
C2_NothingDeferredAfterCancel ==
    \A i \in 1..Len(sink) : \A j \in 1..Len(sink) :
        (i < j /\ sink[i].id \in cancellers /\ sink[j].id # 0) => sink[j].id > sink[i].id

\* C3 (as claimed): a wait=true command is never forwarded while an earlier
\* submitted wait=true command is still held in the FIFO, and the wait=true
\* commands reach the sink in the order of their submission.
C3_WaitOrder ==
    [][(SomeForwarded /\ HasWait(Last(sink'), TRUE) /\ Last(sink').id # 0)
        => /\ \A k \in TaskIds : k > Last(sink').id
           /\ \A j \in 1..Len(sink) : HasWait(sink[j], TRUE) => sink[j].id < Last(sink').id]_vars

\* C8 (as claimed): every step that reads or writes display_hash, tasks,
\* maxtimer or maxtimer_running is taken by a thread holding process_lock.
C8_LockDiscipline ==
    [][(Submit \/ AppendTask \/ CancelTimer \/ JoinTimer \/ ResetRunning \/ ClearTasks
          \/ StartTimer \/ TimerExpires \/ TimerPop \/ TimerCheck) => process_lock # Free]_vars

\* C9 (as claimed): when the cancel branch has reset the flag and the FIFO, no
\* Timer is pending and no expiry callback is running, and no command is in
\* the sink twice.
C9_CancelIsSynchronous ==
    [][ClearTasks => /\ \A i \in TimerIds : pc'[i] = "idle"
                     /\ \A a \in 1..Len(sink) : \A b \in 1..Len(sink) :
                            (a # b /\ sink[a].id # 0) => sink[a].id # sink[b].id]_vars


\* C4 (as claimed): with DrainLen commands deferred behind an active Timer,
\* the expiry callbacks take all of them out of the FIFO in arrival order, and
\* each is dropped exactly when it is a no-beep DISPLAY_MOVE/DISPLAY_TEXT
\* identical to the command processed just before it.
C4_DrainInOrderWithDedup ==
    /\ [](Quiescent => tasks = <<>>)
    /\ [][\A i \in TimerIds :
            /\ (pc[i] = "loop" /\ pc'[i] = "lock") => msg'[i].id = prev.cmd.id + 1
            /\ LockAndDecide(i) => (prev'.handled <=> ~Repeats(msg[i], prev.cmd))]_vars

C6_ClockClearsHash ==
    [][\A t \in Threads : LockAndDecide(t) =>
        /\ IsClock(msg[t]) => (Handles(t) /\ display_hash' = NoHash)
        /\ (IsMoveOrText(msg[t]) /\ ClockShownLast) => Handles(t)]_vars

\* C6 witness: a move or text, then a clock command, then the same move or
\* text (no beep) again are all in the sink
C6_Witness ==
    \E i \in 1..Len(sink) : \E j \in 1..Len(sink) : \E k \in 1..Len(sink) :
        /\ i < j /\ j < k
        /\ IsMoveOrText(sink[i]) /\ IsClock(sink[j])
        /\ Repeats(sink[k], sink[i])

\* C7 (as claimed): no command with maxtime = 0 is ever in the FIFO.
C7_NeverDeferred ==
    \A k \in 1..Len(tasks) : StartsTimer(tasks[k])

\* C7 (amended): a command with maxtime = 0 never arms a Timer; run() puts
\* it in the FIFO exactly when it carries wait=true and maxtimer_running is
\* true when run() takes it, sends it to the cancel branch (lines 96-103)
\* exactly when it carries wait=false and maxtimer_running is true, and
\* otherwise goes straight to the lock of line 109; every command in the
\* FIFO carries wait=true.
C7_DeferredOnlyWhenWaiting ==
    /\ [](\A k \in 1..Len(tasks) : HasWait(tasks[k], TRUE))
    /\ [][\A c \in Commands : (Get(c) /\ ~StartsTimer(c)) =>
            pc'[Consumer] = IF maxtimer_running /\ HasWait(c, TRUE) THEN "append"
                            ELSE IF maxtimer_running /\ HasWait(c, FALSE) THEN "cancel"
                            ELSE "lock"]_vars
    /\ [][\A t \in Threads : (pc[t] # "arm" /\ pc'[t] = "arm") => StartsTimer(msg'[t])]_vars
    /\ [][maxtimer' # maxtimer
          => \E t \in Threads : pc[t] = "arm" /\ maxtimer' = NewTimer(t) /\ StartsTimer(msg[t])]_vars

\* C7 witness: a command with maxtime = 0 is held in the FIFO, and run() holds
\* a wait=false command with maxtime = 0 taken while the Timer was active, for
\* which it is about to cancel the Timer
C7_Witness ==
    /\ pc[Consumer] = "cancel"
    /\ "maxtime" \in msg[Consumer].attrs /\ msg[Consumer].maxtime = 0
    /\ \E k \in 1..Len(tasks) : ~StartsTimer(tasks[k])

\* C10 (as claimed): a report whose position, after flip handling, equals the
\* position reported before fires no event, emits no display command and
\* changes neither the MenuState nor the session state.
C10_SameFenChangesNothing ==
    [][(nfen' = nfen + 1
        /\ FlipHandled(report'.fen, report'.raw, dgtmenu).fen = dgtmenu.dgt_fen)
       => /\ Len(fired') = 0 /\ Len(emitted') = 0
          /\ dgtmenu' = dgtmenu
          /\ UNCHANGED <<session_vars, config, alive>>]_vars

\* C10 (amended): such a report fires no event, emits no display command and
\* changes no session state; of the MenuState it changes nothing but the
\* flip-board setting, which it inverts exactly when the reported position
\* (reversed if the board is flipped and the report is raw) is the
\* reversed-royalty start position.
C10_SameFenOnlyFlips ==
    [][(nfen' = nfen + 1
        /\ FlipHandled(report'.fen, report'.raw, dgtmenu).fen = dgtmenu.dgt_fen)
       => /\ Len(fired') = 0 /\ Len(emitted') = 0
          /\ LET seen == IF dgtmenu.flip_board /\ report'.raw
                         THEN Reverse(report'.fen) ELSE report'.fen
             IN dgtmenu' = IF seen = FlipPattern
                           THEN [dgtmenu EXCEPT !.flip_board = ~dgtmenu.flip_board,
                                                !.position_reverse = ~dgtmenu.flip_board]
                           ELSE dgtmenu
          /\ UNCHANGED <<session_vars, config, alive>>]_vars

\* C10 witness: the shutdown gesture has been reported a second time in a row
\* (after the first one took effect) and the second report left nothing behind
C10_Witness ==
    /\ nfen = 2
    /\ report.fen = shutdown_map[0] /\ report.raw
    /\ FlipHandled(report.fen, report.raw, before).fen = before.dgt_fen
    /\ before.engine_restart
    /\ Len(fired) = 0 /\ Len(emitted) = 0
    /\ dgtmenu = before

\* the smallest k with 8 * k >= n: ceil(n / 8)
CeilEighth(n) == CHOOSE k \in 0..n : 8 * k >= n /\ \A j \in 0..(k - 1) : 8 * j < n
MinOf(a, b) == IF a <= b THEN a ELSE b
\* the step processes the level gesture of file i as a new position
LevelStep(i) ==
    /\ nfen' = nfen + 1
    /\ report'.fen = level_map[i]
    /\ level_map[i] # dgtmenu.dgt_fen

\* C11: for an engine with n >= 1 levels, the level gesture of file i (0..7)
\* selects level min(ceil(n / 8) * i, n - 1) and fires LEVEL with it; the level
\* never exceeds n - 1, and a gesture on a higher file than the gesture
\* before it never selects a lower level.
C11_LevelIndex ==
    [][\A i \in 0..7 : LevelStep(i) =>
        LET n == get_engine(dgtmenu)
        IN /\ dgtmenu'.engine_level = Some(MinOf(CeilEighth(n) * i, n - 1))
           /\ Len(fired') = 1 /\ fired'[1].event = "LEVEL"
           /\ fired'[1].arg = MinOf(CeilEighth(n) * i, n - 1)
           /\ dgtmenu'.engine_level[1] <= n - 1
           /\ \A j \in 0..7 :
                (nfen > 0 /\ report.fen = level_map[j] /\ j <= i)
                => dgtmenu.engine_level[1] <= dgtmenu'.engine_level[1]]_vars

\* C11 witness: with more than 8 levels, the gesture of file 7 has selected
\* the last level right after the gesture of file 3 selected a lower one
C11_Witness ==
    /\ nfen = 2
    /\ get_engine(dgtmenu) > 8
    /\ report.fen = level_map[7]
    /\ before.dgt_fen = level_map[3]
    /\ dgtmenu.engine_level = Some(get_engine(dgtmenu) - 1)
    /\ before.engine_level[1] < get_engine(dgtmenu) - 1
    /\ Len(fired) = 1 /\ fired[1].event = "LEVEL"

\* the step processes report r as a new position (not the previous one)
NewPosition(f) ==
    /\ nfen' = nfen + 1
    /\ report'.fen = f
    /\ FlipHandled(report'.fen, report'.raw, dgtmenu).fen # dgtmenu.dgt_fen

\* C12: the shutdown gesture rnbqkbnr/pppppppp/8/8/8/8/PPPPPPPP/RNBQQBNR,
\* reported as a new position, fires exactly one event, a SHUTDOWN, whether
\* the board is flipped or not and whether a menu is open or not.
C12_ShutdownOnce ==
    [][NewPosition(shutdown_map[0])
       => /\ Len(fired') = 1
          /\ fired'[1].event = "SHUTDOWN"]_vars

\* C12 witness: the gesture arrived raw from a flipped board and fired the
\* single SHUTDOWN
C12_Witness ==
    /\ nfen = 2
    /\ before.flip_board /\ report.raw
    /\ report.fen = shutdown_map[0]
    /\ Len(fired) = 1 /\ fired[1].event = "SHUTDOWN"

\* the step processes a new position whose 5th and 4th rank, as the program
\* reads them (a raw report of a flipped board is reversed), are rnk_5, rnk_4
SliceStep(rnk_5, rnk_4) ==
    /\ nfen' = nfen + 1
    /\ LET h == FlipHandled(report'.fen, report'.raw, dgtmenu).fen
       IN /\ h # dgtmenu.dgt_fen
          /\ Split(h)[4] = rnk_5
          /\ Split(h)[5] = rnk_4
FiresResult(result) ==
    /\ Len(fired') = 1
    /\ fired'[1].event = "DRAWRESIGN"
    /\ fired'[1].result = result
SliceResults ==
       /\ SliceStep(<<"3", "k", "4">>, <<"4", "K", "3">>) => FiresResult("WIN_WHITE")
       /\ SliceStep(<<"4", "k", "3">>, <<"3", "K", "4">>) => FiresResult("WIN_BLACK")
       /\ SliceStep(<<"3", "k", "K", "3">>, Empty) => FiresResult("DRAW")
       /\ SliceStep(Empty, <<"3", "k", "K", "3">>) => FiresResult("DRAW")

\* C13 as stated: a position whose 5th/4th rank slice is 3k4/4K3 fires
\* DRAWRESIGN with a white-wins result, 4k3/3K4 a black-wins result, and the
\* kings side by side on d/e of rank 5 or rank 4 a draw, whatever the rest of
\* the position and of the state.
C13_SliceAlone == [][SliceResults]_vars

\* C13 amended: the same, while no menu is open; with a menu open the slice
\* is recognised and nothing is fired.
C13_SliceOutsideMenu ==
    [][IF dgtmenu.inside
       THEN (\E p \in KingPairs : SliceStep(p[1], p[2])) => fired' = <<>>
       ELSE SliceResults]_vars

\* C13 witness: with no menu open, the black-wins king pair, with rooks on
\* the back ranks and reported raw from a flipped board, fired DRAWRESIGN
C13_Witness ==
    /\ nfen = 2
    /\ before.flip_board /\ ~before.inside
    /\ report = [fen |-> Rooks(<<"4", "K", "3">>, <<"3", "k", "4">>), raw |-> TRUE]
    /\ Len(fired) = 1
    /\ fired[1].event = "DRAWRESIGN" /\ fired[1].result = "WIN_BLACK"

\* the digits a score v is shown with: a sign, the whole pawns and the two
\* decimals of v/100 without the point, right-justified in w characters
Shown(v, w) ==
    LET ds == Digits(IF v < 0 THEN -v ELSE v)
        filled == IF Len(ds) < 3 THEN [i \in 1..(3 - Len(ds)) |-> "0"] \o ds ELSE ds
    IN rjust((IF v < 0 THEN <<"-">> ELSE <<>>) \o filled, w)
Clamped(v) == IF v <= -1000 THEN -999 ELSE IF v >= 1000 THEN 999 ELSE v
\* the message handled in this step sent the combined depth and score
SendsCombined == emitted' # <<>> /\ "rd" \in DOMAIN emitted'[1] /\ emitted'[1].rd = "DOT"
\* the score held after the step (as White sees it), and the depth
HeldScore == int(score'.s)[1]
HeldDepth == depth'[1]

\* C14 as stated: short, medium and long form all show the score limited to
\* -999 .. 999 behind the depth.
C14_AllWidthsClamped ==
    [][SendsCombined
       => /\ emitted'[1].s = format_d(HeldDepth % 100, 2) \o Shown(Clamped(HeldScore), 4)
          /\ emitted'[1].m = format_d(HeldDepth % 100, 2) \o Shown(Clamped(HeldScore), 6)
          /\ emitted'[1].l = format_d(HeldDepth, 3) \o Shown(Clamped(HeldScore), 8)]_vars

\* C14 amended: each form shows score/100 with two decimals and no point
\* behind the depth (modulo 100 in the short and medium form); only the short
\* form limits the score to -999 .. 999, the medium and long form show it as
\* it is.
C14_ShortWidthClamped ==
    [][SendsCombined
       => /\ emitted'[1].s = format_d(HeldDepth % 100, 2) \o Shown(Clamped(HeldScore), 4)
          /\ emitted'[1].m = format_d(HeldDepth % 100, 2) \o Shown(HeldScore, 6)
          /\ emitted'[1].l = format_d(HeldDepth, 3) \o Shown(HeldScore, 8)]_vars

\* C14 witness: score -1500 at depth 12 was sent as 12-999, 12 -1500 and
\*  12   -1500
C14_Witness ==
    /\ emitted # <<>> /\ "rd" \in DOMAIN emitted[1] /\ emitted[1].rd = "DOT"
    /\ depth = Some(12) /\ int(score.s) = Some(-1500)
    /\ emitted[1].s = <<"1", "2", "-", "9", "9", "9">>
    /\ emitted[1].m = <<"1", "2", " ", "-", "1", "5", "0", "0">>
    /\ emitted[1].l = <<" ", "1", "2", " ", " ", " ", "-", "1", "5", "0", "0">>

\* the step handles a DGT_BUTTON message carrying the power code 0x11
PowerCode ==
    /\ nfen' = nfen + 1
    /\ message' = Message("DGT_BUTTON", 17)

\* C15 as stated: the power code fires a SHUTDOWN event in every state.
C15_PowerAlways ==
    [][PowerCode => \E i \in 1..Len(fired') : fired'[i].event = "SHUTDOWN"]_vars

\* C15 amended: the power code fires one SHUTDOWN event in every session and
\* menu state in which MenuState's engine-restart flag is not set; while the
\* flag is set (an engine change, a shutdown or a reboot is under way) the
\* press is ignored: no event, no display command.
C15_PowerUnlessRestart ==
    [][PowerCode
       => IF dgtmenu.engine_restart
          THEN fired' = <<>> /\ emitted' = <<>>
          ELSE Len(fired') = 1 /\ fired'[1].event = "SHUTDOWN"]_vars

\* C15 witness: after an earlier message, with a menu open and no restart
\* under way, the power code fired SHUTDOWN
C15_Witness ==
    /\ nfen = 2
    /\ message = Message("DGT_BUTTON", 17)
    /\ before.inside /\ ~before.engine_restart
    /\ Len(fired) = 1 /\ fired[1].event = "SHUTDOWN"

\* the step handles a message that combines depth and score (a NEW_SCORE in
\* KIBITZ mode, button 1) while no depth is held or the score text is no number
CombinesUnformattable ==
    /\ nfen' = nfen + 1
    /\ ~dgtmenu.inside /\ ~dgtmenu.engine_restart
    /\ \/ message'.kind = "NEW_SCORE"
       \/ message' = Message("DGT_BUTTON", 1)
    /\ depth' = None \/ int(score'.s) = None

\* C19: with no depth received yet or a score text that is no number,
\* combining depth and score raises no error: the display thread is still
\* running after the message, and a button press leaves the stored score
\* as it was.
C19_UnformattableIsHarmless ==
    [][CombinesUnformattable
       => /\ alive'
          /\ message'.kind = "DGT_BUTTON" => score' = score]_vars

\* the position the program decodes in this step: the report after the flip
\* handling
Handled == FlipHandled(report'.fen, report'.raw, dgtmenu).fen
\* the position h is in no gesture table
InNoTable(h) ==
    /\ ~InMap(level_map, h) /\ ~InMap(book_map, h) /\ ~InMap(engine_map, h)
    /\ ~InMap(mode_map, h)
    /\ ~InMap(tc_fixed_map, h) /\ ~InMap(tc_blitz_map, h) /\ ~InMap(tc_fisch_map, h)
    /\ ~InMap(shutdown_map, h) /\ ~InMap(reboot_map, h)
    /\ LET rnk == Split(h)
           slice == Slice(rnk[4], rnk[5])
       IN \A p \in drawresign_map : p[1] # slice
\* what lines 388-399 are to do with a position h in no table
Chess960OrFen(h) ==
    LET pos960 == chess960_pos(h)
    IN IF pos960 = None
       THEN fired' = <<Ev("FEN", 0, NoText, h)>>
       ELSE IF pos960 = Some(518) \/ dgtmenu.engine_has_960
       THEN fired' = <<Ev("NEW_GAME", pos960[1], NoText, None)>>
       ELSE /\ fired' = <<>>
            /\ emitted' = <<Text("Y00_error960")>>
            /\ UNCHANGED <<moves_vars, score, depth>>

\* C18: for a new position in no gesture table, a start position other than
\* the standard one fires NEW_GAME only if the active engine supports
\* Chess960; without that support the only output is the invalid-start-
\* position text, no event is fired and moves, score and depth stay; a
\* position that is no start position is forwarded as a FEN event.
C18_Chess960OrFen ==
    [][nfen' = nfen + 1 /\ message'.kind = "DGT_FEN"
       => LET h == Handled
          IN h # dgtmenu.dgt_fen /\ InNoTable(h) => Chess960OrFen(h)]_vars

\* C18 witness: Chess960 start position 0 was reported while the engine has
\* no Chess960 support, and only the text was sent
C18_Witness ==
    /\ nfen > 0
    /\ report.fen = Start960 /\ ~before.flip_board /\ ~before.engine_has_960
    /\ before.dgt_fen # Start960
    /\ fired = <<>>
    /\ emitted = <<Text("Y00_error960")>>

\* h is new and a book or engine gesture whose index is outside the book
\* list or the list of installed engines
OutOfRange(h) ==
    /\ h # dgtmenu.dgt_fen
    /\ \/ /\ InMap(book_map, h)
          /\ IndexOf(book_map, h) >= dgtmenu.all_books
       \/ /\ InMap(engine_map, h)
          /\ IndexOf(engine_map, h) >= Len(dgtmenu.installed_engines)
OutOfRangeStep ==
    /\ nfen' = nfen + 1
    /\ message'.kind = "DGT_FEN"
    /\ OutOfRange(Handled)

\* C20: a book or engine gesture with an index outside the current list is
\* ignored: no event, no display command, and the selected book index and
\* engine index of MenuState stay as they were.
C20_OutOfRangeIgnored ==
    [][OutOfRangeStep
       => /\ fired' = <<>>
          /\ emitted' = <<>>
          /\ dgtmenu'.book_index = dgtmenu.book_index
          /\ dgtmenu'.engine_index = dgtmenu.engine_index]_vars

\* the display thread, waiting at msg_queue.get(), takes a message and
\* handles it in this step
Handled_message == message = NoMessage /\ message' # NoMessage
\* the message taken and handled in this step has this kind
Taken(kind) == Handled_message /\ message'.kind = kind

\* no LIGHT_SQUARES among cmds is sent on lit squares: a LIGHT_CLEAR lies
\* between it and the LIGHT_SQUARES before it (l: squares lit before cmds)
RECURSIVE ClearedBetween(_, _)
ClearedBetween(l, cmds) ==
    IF cmds = <<>> THEN TRUE
    ELSE IF Head(cmds).kind = LIGHT_SQUARES THEN ~l /\ ClearedBetween(TRUE, Tail(cmds))
    ELSE IF Head(cmds).kind = LIGHT_CLEAR THEN ClearedBetween(FALSE, Tail(cmds))
    ELSE ClearedBetween(l, Tail(cmds))
\* the acknowledgements of a finished move
IsMoveDoneAck(cmd) ==
    cmd.kind = DISPLAY_TEXT /\ cmd.content \in {"K05_okpico", "K05_okuser", "K05_okmove"}

\* C16: in the stream of commands over every sequence of messages, a
\* LIGHT_CLEAR lies between any two LIGHT_SQUARES, and an acknowledgement of
\* a finished move that is sent while squares are lit (in the stream, or by
\* the leds_are_on flag) comes after a LIGHT_CLEAR of the same message.
C16_LightsAlternate ==
    [][Handled_message
       => /\ ClearedBetween(lit, emitted')
          /\ \A i \in 1..Len(emitted') :
                 (lit \/ leds_are_on) /\ IsMoveDoneAck(emitted'[i])
                 => \E j \in 1..(i - 1) : emitted'[j].kind = LIGHT_CLEAR]_vars

\* C16 witness: a second computer move arrived while the squares of the
\* first were lit; LIGHT_CLEAR was sent before the new LIGHT_SQUARES
C16_Witness ==
    /\ message.kind = "COMPUTER_MOVE"
    /\ Len(emitted) = 3
    /\ emitted[1].kind = LIGHT_CLEAR /\ emitted[2].kind = DISPLAY_MOVE
    /\ emitted[3].kind = LIGHT_SQUARES
    /\ lit /\ leds_are_on

\* C17: no DISPLAY_MOVE command carries the null move.
C17_NoNullMoveShown ==
    \A i \in 1..Len(emitted) : emitted[i].kind = DISPLAY_MOVE => emitted[i].content # "null"

\* C17 witness: the computer's first move was taken away by the lever before
\* it was done, so its squares are lit and there is a hint move but neither
\* a pending nor a last move; button 0 sent the 'no move' text and the clock
\* time
C17_Witness ==
    /\ message = Message("DGT_BUTTON", 0)
    /\ ~before.inside /\ ~before.engine_restart
    /\ leds_are_on /\ engine_finished
    /\ last_move = "null" /\ play_move = "null" /\ hint_move = "g1f3"
    /\ emitted = <<Text("B10_nomove"), DisplayTime(AllDevs)>>

\* the message taken and handled in this step is a DGT_BUTTON message with
\* this button code
Pressed(button) == Taken("DGT_BUTTON") /\ message'.arg = button
FiredNames == [i \in 1..Len(fired') |-> fired'[i].event]
PassiveMode == dgtmenu.mode \in {"ANALYSIS", "KIBITZ", "PONDER"}
\* what button 2 is to do when _process_button hands the press on
Button2Acts ==
    IF PassiveMode THEN FiredNames = <<>> /\ engine_finished' = engine_finished
    ELSE IF engine_finished
    THEN FiredNames = <<"ALTERNATIVE_MOVE">> /\ ~engine_finished'
    ELSE FiredNames = <<"PAUSE_RESUME">> /\ ~engine_finished'
\* engine_finished is set by a COMPUTER_MOVE message only
SetByComputerMove == (~engine_finished /\ engine_finished') => Taken("COMPUTER_MOVE")

\* C25 as stated: every press of button 2 fires ALTERNATIVE_MOVE while
\* engine_finished is set (and clears it), PAUSE_RESUME while it is clear,
\* and nothing in the modes ANALYSIS, KIBITZ and PONDER (keeping
\* engine_finished); engine_finished is set again only by a COMPUTER_MOVE
\* message, so a COMPUTER_MOVE lies between two ALTERNATIVE_MOVE events.
C25_AlternativeOncePerMove ==
    [][(Pressed(2) => Button2Acts) /\ SetByComputerMove]_vars

\* C25 amended: the same for every press taken while MenuState's
\* engine-restart flag is clear; a press taken while the flag is set fires
\* no event, emits no command and keeps engine_finished.
C25_AlternativeUnlessRestart ==
    [][/\ Pressed(2)
          => IF dgtmenu.engine_restart
             THEN fired' = <<>> /\ emitted' = <<>> /\ engine_finished' = engine_finished
             ELSE Button2Acts
       /\ SetByComputerMove]_vars

\* C25 witness: a computer move was taken, and the press of button 2 after
\* it fired ALTERNATIVE_MOVE and cleared engine_finished
C25_Witness ==
    /\ message = Message("DGT_BUTTON", 2)
    /\ ~before.engine_restart
    /\ Len(fired) = 1 /\ fired[1].event = "ALTERNATIVE_MOVE"
    /\ ~engine_finished
    /\ play_move = "e7e5" /\ leds_are_on

\* the message taken and handled in this step is a lever message
LeverMoved == Pressed(64) \/ Pressed(-64)
\* what the lever is to do when _process_button hands the message on
LeverActs ==
    /\ UNCHANGED <<hint_move, hint_fen, hint_turn, last_move, last_fen, last_turn,
                   score, depth, leds_are_on, engine_finished>>
    /\ IF ~dgtmenu.inside
       THEN /\ play_move' = "null" /\ play_fen' = None /\ play_turn' = None
            /\ FiredNames = <<"SWITCH_SIDES">>
       ELSE UNCHANGED session_vars /\ fired' = <<>>

\* C26 as stated: every lever message outside the menu sets play_move,
\* play_fen and play_turn to null and fires exactly one SWITCH_SIDES, keeping
\* hint_*, last_*, score, depth, leds_are_on and engine_finished; inside the
\* menu it changes no session state and fires nothing.
C26_LeverFrame ==
    [][LeverMoved => LeverActs]_vars

\* C26 amended: the same for every lever message taken while MenuState's
\* engine-restart flag is clear; one taken while the flag is set changes no
\* session state and fires nothing, inside the menu and outside.
C26_LeverUnlessRestart ==
    [][LeverMoved
       => IF dgtmenu.engine_restart
          THEN UNCHANGED session_vars /\ fired' = <<>> /\ emitted' = <<>>
          ELSE LeverActs]_vars

\* C26 witness: the lever was moved outside the menu while a computer move
\* was pending; the pending move is gone and the hint is kept
C26_Witness ==
    /\ message \in {Message("DGT_BUTTON", 64), Message("DGT_BUTTON", -64)}
    /\ ~before.inside /\ ~before.engine_restart
    /\ play_move = "null" /\ play_fen = None /\ play_turn = None
    /\ hint_move = "g1f3" /\ hint_turn = "WHITE" /\ engine_finished /\ leds_are_on
    /\ Len(fired) = 1 /\ fired[1].event = "SWITCH_SIDES"

\* the message taken and handled in this step is a USER_MOVE_DONE or a
\* REVIEW_MOVE_DONE
MoveDoneTaken == Taken("USER_MOVE_DONE") \/ Taken("REVIEW_MOVE_DONE")

\* C27: after a USER_MOVE_DONE or REVIEW_MOVE_DONE message, whatever the
\* state before, leds_are_on is false, a LIGHT_CLEAR was emitted (first, and
\* once) exactly if it had been true, last_move, last_fen and last_turn are
\* the move, fen and turn of the message, and an acknowledgement text is
\* emitted exactly when get_confirm() is false.
C27_MoveDone ==
    [][MoveDoneTaken
       => /\ ~leds_are_on'
          /\ leds_are_on <=> (emitted' # <<>> /\ emitted'[1] = LightClear)
          /\ \A i \in 2..Len(emitted') : emitted'[i] # LightClear
          /\ last_move' = message'.move
          /\ last_fen' = message'.fen
          /\ last_turn' = message'.turn
          /\ ~dgtmenu.confirm <=> \E i \in 1..Len(emitted') : IsMoveDoneAck(emitted'[i])]_vars

\* C27 witness: the user's move was done while the squares of the computer
\* move were lit; LIGHT_CLEAR and then the acknowledgement were emitted, and
\* the move replaced the computer's as the last move
C27_Witness ==
    /\ message.kind = "USER_MOVE_DONE"
    /\ message.move = "g1f3"
    /\ last_move = message.move /\ last_fen = message.fen /\ last_turn = message.turn
    /\ play_move = "e7e5"
    /\ ~leds_are_on /\ ~dgtmenu.confirm
    /\ emitted = <<LightClear, Text("K05_okuser")>>

\* lines 513-519: the score text a NEW_SCORE message leaves in self.score
ScoreOf(taken) ==
    IF taken.mate = None
    THEN N10_score(Some(IF taken.turn = "BLACK" THEN -taken.score ELSE taken.score))
    ELSE N10_mate(str(taken.mate[1]))

\* C28: while the menu is open NEW_SCORE, NEW_PV and DGT_SERIAL_NR emit no
\* command, NEW_SCORE still stores the score and NEW_PV the hint move, fen
\* and turn; outside the menu they emit a command only when the mode is
\* KIBITZ (NEW_SCORE, the mode of the message), ANALYSIS (NEW_PV, the mode
\* of the message) or PONDER (DGT_SERIAL_NR, the mode of the menu), and in
\* that mode they emit one unless the handler ends with an exception.
C28_MenuSuppresses ==
    [][/\ Taken("NEW_SCORE")
          => /\ score' = ScoreOf(message')
             /\ emitted' # <<>> => ~dgtmenu.inside /\ message'.mode = "KIBITZ"
             /\ (~dgtmenu.inside /\ message'.mode = "KIBITZ" /\ alive') => Len(emitted') = 1
       /\ Taken("NEW_PV")
          => /\ hint_move' = message'.pv[1]
             /\ hint_fen' = game_fen(message'.game)
             /\ hint_turn' = game_turn(message'.game)
             /\ Len(emitted') = IF ~dgtmenu.inside /\ message'.mode = "ANALYSIS" THEN 1 ELSE 0
       /\ Taken("DGT_SERIAL_NR")
          => /\ emitted' # <<>> => ~dgtmenu.inside /\ dgtmenu.mode = "PONDER"
             /\ (~dgtmenu.inside /\ dgtmenu.mode = "PONDER" /\ alive') => Len(emitted') = 1]_vars

\* C28 witness: a NEW_PV message in ANALYSIS mode arrived while the menu was
\* open; hint move, fen and turn were stored and nothing was emitted
C28_Witness ==
    /\ message.kind = "NEW_PV" /\ message.mode = "ANALYSIS"
    /\ dgtmenu.inside /\ before.inside
    /\ hint_move = "g1f3" /\ hint_fen = game_fen(WhiteToMove) /\ hint_turn = "WHITE"
    /\ emitted = <<>>

\* a tick of the board's watchdog taken in PONDER mode with the menu closed
PonderTick == Taken("DGT_SERIAL_NR") /\ dgtmenu.mode = "PONDER" /\ ~dgtmenu.inside

\* C30: in PONDER mode outside the menu every DGT_SERIAL_NR tick emits
\* exactly one command with wait = true, the combined depth and score while
\* show_move_or_value is below the ponder interval and the hint move (or the
\* 'no move' text) from there on, and advances show_move_or_value by one
\* modulo twice the interval.
C30_PonderRotation ==
    [][PonderTick
       => /\ Len(emitted') = 1
          /\ emitted'[1].wait
          /\ show_move_or_value' = (show_move_or_value + 1) % (2 * PonderInterval)
          /\ show_move_or_value' \in 0..(2 * PonderInterval - 1)
          /\ IF show_move_or_value < PonderInterval
             THEN emitted'[1].kind = DISPLAY_TEXT /\ emitted'[1].content # "N10_nomove"
             ELSE \/ emitted'[1].kind = DISPLAY_MOVE /\ emitted'[1].content = hint_move
                  \/ emitted'[1].content = "N10_nomove" /\ hint_move = "null"]_vars

\* the reversed-royalty position as the board driver reports it
RawFlipPattern == [fen |-> FlipPattern, raw |-> TRUE]

\* C29: a raw report of the reversed-royalty position with the flip flag off
\* sets the flag and is handled as the standard start position (which
\* becomes the stored position, and starts a new game 518 unless it was the
\* stored position already); the same raw report repeated directly afterwards
\* keeps the flag, fires no event and emits nothing.
C29_FlipPersistedOnce ==
    [][(nfen' = nfen + 1 /\ report' = RawFlipPattern)
       => /\ ~dgtmenu.flip_board
             => /\ dgtmenu'.flip_board
                /\ dgtmenu'.dgt_fen = StartFen
                /\ IF dgtmenu.dgt_fen = StartFen THEN fired' = <<>>
                   ELSE Len(fired') = 1 /\ fired'[1].event = "NEW_GAME" /\ fired'[1].arg = 518
          /\ (nfen >= 1 /\ report = RawFlipPattern)
             => /\ dgtmenu' = dgtmenu
                /\ dgtmenu.flip_board
                /\ fired' = <<>> /\ emitted' = <<>>]_vars

\* C29 witness: the raw reversed-royalty position was reported twice in a
\* row with the flip flag off at first; the flag is set, the stored position
\* is the standard start, and the second report left nothing behind
C29_Witness ==
    /\ nfen = 2
    /\ report = RawFlipPattern
    /\ before = dgtmenu
    /\ dgtmenu.flip_board /\ dgtmenu.position_reverse
    /\ dgtmenu.dgt_fen = StartFen
    /\ fired = <<>> /\ emitted = <<>>

\* the Timers started and neither expired nor cancelled
Pending == { i \in TimerIds : pc[i] = "waiting" }
\* an expiry callback is running
CallbackRunning == \E i \in TimerIds : pc[i] \in {"expired", "refresh", "loop", "lock", "arm", "start",
                                                  "setflag", "show", "check"}

\* C21 (as claimed): at most one Timer is pending, and while run() is between
\* two commands and no expiry callback is running, maxtimer_running is true
\* exactly when a Timer is pending.
C21_OneTimerAndFlag ==
    /\ Cardinality(Pending) <= 1
    /\ (pc[Consumer] = "get" /\ ~CallbackRunning) => (maxtimer_running <=> Pending # {})

\* C22 (as claimed): with every pending Timer expiring in the end, every
\* command placed in the FIFO is taken out of it again, and the FIFO is
\* empty whenever run() is between two commands, no Timer is pending and no
\* expiry callback is running.
C22_FifoDrains ==
    /\ \A k \in 1..LiveMsgs : (k \in TaskIds) ~> (k \notin TaskIds)
    /\ []((pc[Consumer] = "get" /\ Pending = {} /\ ~CallbackRunning) => tasks = <<>>)

\* the expiry callback of Timer i sends its refresh / tests the flag after a
\* deferred command
Refreshes(i) == pc[i] = "refresh" /\ pc'[i] = "loop"
Tests(i) == pc[i] = "check" /\ pc'[i] # "check"
\* the deferred command the callback has just processed started a Timer
Rearmed(i) == prev.cmd = msg[i] /\ prev.handled /\ StartsTimer(msg[i])
\* the drain of the deferred commands, apart from the refresh itself: the
\* refresh is in the sink before the callback takes a deferred command, the
\* callback takes the head of the FIFO, and it stops, leaving the rest of the
\* FIFO as it is, exactly after a command that set the flag, which is the
\* first one that started a Timer
DrainSteps(i) ==
    /\ (pc[i] = "loop" /\ pc'[i] = "lock")
           => /\ msg'[i] = Head(tasks) /\ tasks' = Tail(tasks)
              /\ \E j \in 1..Len(sink) :
                     /\ sink[j].id = 0
                     /\ \A k \in (j + 1)..Len(sink) : sink[k].id < msg'[i].id
    /\ Tests(i) => /\ tasks' = tasks
                   /\ pc'[i] = "idle" <=> maxtimer_running
                   /\ maxtimer_running <=> Rearmed(i)

\* C23 (as claimed): on expiry a DISPLAY_TIME with force=true and wait=true
\* is sent before any deferred command, and the drain stops right after the
\* first deferred command that re-arms the Timer, the rest staying in the
\* FIFO in order.
C23_ForcedRefreshThenDrain ==
    [][\A i \in TimerIds :
        /\ Refreshes(i) => /\ SomeForwarded
                           /\ Last(sink').kind = DISPLAY_TIME
                           /\ Last(sink').force /\ HasWait(Last(sink'), TRUE)
        /\ DrainSteps(i)]_vars

\* C23 (as claimed, but for the refresh taken as the code sends it, with
\* force=false and wait=true): the refresh is sent before any deferred
\* command, and the drain stops right after the first deferred command that
\* re-arms the Timer, the rest staying in the FIFO in order.
C23_RefreshThenDrain ==
    [][\A i \in TimerIds :
        /\ Refreshes(i) => /\ SomeForwarded
                           /\ Last(sink').kind = DISPLAY_TIME
                           /\ ~Last(sink').force /\ HasWait(Last(sink'), TRUE)
        /\ DrainSteps(i)]_vars

\* C23: the Timer expired with DrainLen commands deferred; the refresh went
\* to the sink, then the first deferred command, which started a Timer, and
\* the callback ended with the other commands still in the FIFO
C23_Witness ==
    /\ Len(sink) = 3
    /\ sink[2] = TimeRefresh
    /\ sink[3].id = 2 /\ StartsTimer(sink[3])
    /\ maxtimer_running
    /\ \A i \in TimerIds : pc[i] \in {"idle", "waiting"}
    /\ Len(tasks) = DrainLen - 1
    /\ \A k \in 1..Len(tasks) : tasks[k].id = k + 2

\* run() takes a command whose class has no wait attribute while the
\* timer-active flag is set
TakesPlain == \E c \in Commands : Get(c) /\ maxtimer_running /\ "wait" \notin c.attrs
\* run() takes a statement for a command whose class has no wait attribute
PlainStep ==
    /\ pc[Consumer] # "get" /\ pc'[Consumer] # pc[Consumer]
    /\ "wait" \notin msg[Consumer].attrs

\* C24 (as claimed): a command without a wait attribute taken while the
\* Timer is active goes the way of a wait=false command: the Timer is
\* cancelled and the FIFO discarded.
C24_MissingWaitCancels ==
    [][TakesPlain => pc'[Consumer] = "cancel"]_vars

\* C24 (amended): such a command is processed at once and neither cancels the
\* Timer nor touches the FIFO or the flag; no command without a maxtime
\* attribute starts a Timer.
C24_MissingWaitKeepsTimer ==
    [][/\ TakesPlain => pc'[Consumer] = "lock"
       /\ PlainStep => /\ pc'[Consumer] \in {"show", "get"}
                       /\ UNCHANGED <<tasks, maxtimer, maxtimer_running>>
                       /\ \A i \in TimerIds : pc[i] = "waiting" => pc'[i] = "waiting"
       /\ \A t \in Threads : pc'[t] = "arm" => "maxtime" \in msg'[t].attrs]_vars

\* C24 witness: a LIGHT_CLEAR or CLOCK command without a wait attribute went
\* to the sink while the Timer was pending, and the command deferred before
\* it is still in the FIFO
C24_Witness ==
    /\ pc[Consumer] = "get"
    /\ sink # <<>> /\ "wait" \notin Last(sink).attrs
    /\ maxtimer_running /\ Pending # {}
    /\ tasks # <<>> /\ tasks[1].id < Last(sink).id

\* the commands that change what the clock shows
ChangesClock(c) == c.kind \in {DISPLAY_MOVE, DISPLAY_TEXT, DISPLAY_TIME,
                               CLOCK_START, CLOCK_STOP, CLOCK_TIME}
\* the most recent command in the sink that changes what the clock shows is
\* the same move or text as m
LastShownIs(m) ==
    \E j \in 1..Len(sink) :
        /\ Hash(sink[j]) = Hash(m)
        /\ \A k \in (j + 1)..Len(sink) : ~ChangesClock(sink[k])

\* C31 (as claimed): a DISPLAY_MOVE or DISPLAY_TEXT is dropped only if the
\* most recent command in the sink that changes what the clock shows is an
\* identical move or text; so after a DISPLAY_TIME in the sink the same move
\* or text is forwarded again.
C31_DroppedOnlyWhenShown ==
    [][\A t \in Threads :
        (LockAndDecide(t) /\ IsMoveOrText(msg[t]) /\ Drops(t)) => LastShownIs(msg[t])]_vars

\* a gesture has just set off a shutdown, a reboot or a new engine
GestureRestarts ==
    /\ Taken("DGT_FEN")
    /\ \E i \in 1..Len(fired') : fired'[i].event \in {"SHUTDOWN", "REBOOT", "NEW_ENGINE"}

\* C32: a shutdown, reboot or engine gesture sets the engine-restart flag and
\* only an ENGINE_READY message clears it, whatever other messages are
\* handled in between; while it is set a DGT_BUTTON message (buttons 0-4,
\* lever) emits no command, fires no event and changes neither the session
\* nor the MenuState, and a LEVEL or GAME_ENDS message emits no command.
C32_RestartSilences ==
    [][/\ GestureRestarts => dgtmenu'.engine_restart
       /\ (dgtmenu.engine_restart /\ ~dgtmenu'.engine_restart) => Taken("ENGINE_READY")
       /\ (/\ dgtmenu.engine_restart
           /\ Taken("DGT_BUTTON")
           /\ message'.arg \in {0, 1, 2, 3, 4, 64, -64})
          => /\ emitted' = <<>> /\ fired' = <<>>
             /\ UNCHANGED <<session_vars, dgtmenu>>
       /\ (dgtmenu.engine_restart /\ (Taken("LEVEL") \/ Taken("GAME_ENDS")))
          => emitted' = <<>>]_vars

\* C32 witness: the engine gesture set the flag, a computer move was handled
\* after it, and the press of button 2 that followed, with that move to
\* replace, left nothing behind
C32_Witness ==
    /\ report.fen = engine_map[1]
    /\ message = Message("DGT_BUTTON", 2)
    /\ before.engine_restart /\ dgtmenu = before
    /\ engine_finished /\ play_move = "e7e5"
    /\ emitted = <<>> /\ fired = <<>>

\* C33 (as claimed): run() never holds process_lock while it waits in
\* join(), and under fair scheduling run() always comes back to take the
\* next command (the one it holds having been deferred, dropped or
\* forwarded) and every started Timer thread ends.
C33_NoDeadlock ==
    /\ [](pc[Consumer] \in {"cancel", "join", "joining", "reset", "clear"}
            => process_lock # Consumer)
    /\ (pc[Consumer] # "get") ~> (pc[Consumer] = "get")
    /\ \A i \in TimerIds : (pc[i] # "idle") ~> (pc[i] = "idle")

\* C33: run() waits in join() for a Timer whose callback is running and has
\* yet to take the lock
C33_Witness ==
    /\ pc[Consumer] = "joining"
    /\ pc[joined] \in {"refresh", "loop", "lock"}

\* the engine was found, and the caller has started every search but the
\* first after a stop() that returned
Disciplined == engine /\ ~caller.overlapped
Closed == { i \in 1..Len(searches) : searches[i].at = "closed" }
EventsOf(name, i) == { k \in 1..Len(events) : events[k].event = name /\ events[k].of = i }
\* the searches a BEST_MOVE is owed: stop(show_best=True) was called for
\* it, or it is from go() and no stop() was called for it before its
\* callback decided
Owed(i) ==
    IF searches[i].asked = "none" THEN searches[i].kind = "go" ELSE searches[i].asked = "best"

\* C34 (as claimed): a finished search has fired exactly one STOP_SEARCH, and
\* a BEST_MOVE exactly if it was started by go() and ended on its own or was
\* ended by stop(show_best=True).
C34_BestMoveWhenOwed ==
    Disciplined =>
        \A i \in Closed :
            /\ Cardinality(EventsOf("STOP_SEARCH", i)) = 1
            /\ (EventsOf("BEST_MOVE", i) # {}) <=> Owed(i)

\* START_SEARCH and STOP_SEARCH events in the order they were fired
RECURSIVE SearchEvents(_)
SearchEvents(es) ==
    IF es = <<>> THEN <<>>
    ELSE IF Head(es).event \in {"START_SEARCH", "STOP_SEARCH"}
         THEN <<Head(es)>> \o SearchEvents(Tail(es))
         ELSE SearchEvents(Tail(es))
StatusOf(kind) == IF kind = "go" THEN THINK ELSE PONDER

\* C35 (as claimed): between two calls status is WAIT exactly when every
\* search started has ended and its callback has returned; START_SEARCH and
\* STOP_SEARCH alternate; a STOP_SEARCH carries the status of the search
\* that ended.
C35_StatusTracksSearch ==
    Disciplined =>
        /\ caller.pc = "idle"
              => (status = WAIT <=> \A i \in 1..Len(searches) : i \in Closed)
        /\ LET se == SearchEvents(events)
           IN \A k \in 1..Len(se) :
                  se[k].event = IF k % 2 = 1 THEN "START_SEARCH" ELSE "STOP_SEARCH"
        /\ \A k \in 1..Len(events) :
               events[k].event = "STOP_SEARCH"
               => events[k].status = StatusOf(searches[events[k].of].kind)
====
